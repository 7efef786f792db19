------------------------------- MODULE Codec -------------------------------
(***************************************************************************)
(* How values become bytes and bytes values: serializer_deserializer.hpp   *)
(* on the server, the same code in koheron-client.hpp, append and          *)
(* build_payload in koheron.py.  A scalar is sent with its highest byte    *)
(* first.  The elements of an array or a vector are copied from memory,    *)
(* where the machines this runs on keep the lowest byte first.             *)
(*                                                                         *)
(* A float or a double is the unsigned number of its bits.                 *)
(***************************************************************************)
EXTENDS Integers, SequencesExt

CONSTANT Radix   \* the number of values of a byte (256)

ASSUME CodecAssumption == Radix \in Nat \ {0, 1}

Byte == 0..(Radix - 1)

SizeOf == [ bool |-> 1, uint8_t |-> 1, int8_t |-> 1, uint16_t |-> 2, int16_t |-> 2,
            uint32_t |-> 4, int32_t |-> 4, float |-> 4,
            uint64_t |-> 8, int64_t |-> 8, double |-> 8 ]

-----------------------------------------------------------------------------
(* Unsigned numbers of 1, 2, 4 and 8 bytes. *)

Radix2 == Radix * Radix
Radix4 == Radix2 * Radix2
Radix8 == Radix4 * Radix4

Append1(x) == <<x % Radix>>
Append2(x) == Append1(x \div Radix) \o Append1(x)
Append4(x) == Append2(x \div Radix2) \o Append2(x)
Append8(x) == Append4(x \div Radix4) \o Append4(x)

Extract1(b) == b[1]
Extract2(b) == b[2] + b[1] * Radix
Extract4(b) == b[4] + b[3] * Radix + b[2] * Radix2 + b[1] * Radix2 * Radix
Extract8(b) == Extract4(SubSeq(b, 5, 8)) + Extract4(SubSeq(b, 1, 4)) * Radix4

-----------------------------------------------------------------------------
(* The types of the interface. *)

Signed == {"int8_t", "int16_t", "int32_t", "int64_t"}
Span(T) == CASE SizeOf[T] = 1 -> Radix [] SizeOf[T] = 2 -> Radix2
             [] SizeOf[T] = 4 -> Radix4 [] SizeOf[T] = 8 -> Radix8

AppendBits(T, x) == CASE SizeOf[T] = 1 -> Append1(x) [] SizeOf[T] = 2 -> Append2(x)
                      [] SizeOf[T] = 4 -> Append4(x) [] SizeOf[T] = 8 -> Append8(x)
ExtractBits(T, b) == CASE SizeOf[T] = 1 -> Extract1(b) [] SizeOf[T] = 2 -> Extract2(b)
                       [] SizeOf[T] = 4 -> Extract4(b) [] SizeOf[T] = 8 -> Extract8(b)

\* A value with a sign is sent as its two's complement.
append(T, x) == IF T = "bool" THEN Append1(IF x THEN 1 ELSE 0)
                ELSE AppendBits(T, x % Span(T))

extract(T, b) ==
    LET u == ExtractBits(T, b)
    IN  IF T = "bool" THEN u = 1
        ELSE IF T \in Signed /\ 2 * u >= Span(T) THEN u - Span(T) ELSE u

\* An element of a container as it lies in memory.
ToMemory(T, x) == Reverse(append(T, x))
FromMemory(T, b) == extract(T, Reverse(b))

-----------------------------------------------------------------------------
(* Arguments and results.  A type is its kind, its scalar or the scalar of *)
(* its elements and, for an array, their number; a string is a vector of   *)
(* bytes, and a tuple is several results.                                  *)

Scalar(T) == [kind |-> "scalar", T |-> T, n |-> 1]
Array(T, n) == [kind |-> "array", T |-> T, n |-> n]
Vector(T) == [kind |-> "vector", T |-> T, n |-> 0]

\* What a variable of a type may hold, and an argument or a result.
ValuesOf(T) ==
    IF T = "bool" THEN BOOLEAN
    ELSE IF T \in Signed THEN {x \in Int : -Span(T) <= 2 * x /\ 2 * x < Span(T)}
    ELSE 0..(Span(T) - 1)

Types == { t \in [kind : {"scalar", "array", "vector"}, T : DOMAIN SizeOf, n : Nat] :
             (t.kind = "scalar" => t.n = 1) /\ (t.kind = "array" => t.n > 0) }

Holds(t, x) ==
    CASE t.kind = "scalar" -> x \in ValuesOf(t.T)
      [] t.kind = "array" -> x \in [1..t.n -> ValuesOf(t.T)]
      [] t.kind = "vector" -> x \in Seq(ValuesOf(t.T)) /\ Len(x) * SizeOf[t.T] < Radix4

Typed(types, v) ==
    v = [i \in DOMAIN types |-> v[i]] /\ \A i \in DOMAIN types : Holds(types[i], v[i])

\* A vector's length is not known from its type, only from the bytes before it.
FixedSize(t) == IF t.kind = "vector" THEN SizeOf["uint32_t"] ELSE t.n * SizeOf[t.T]
required_buffer_size(types) == FoldLeft(LAMBDA n, t : n + FixedSize(t), 0, types)

dump_array_to_buffer(t, v) == FlattenSeq([i \in DOMAIN v |-> ToMemory(t.T, v[i])])

\* Mutant: the length counts one element more, as for the end of a C string.
DumpTerminated(t, v) ==
    append("uint32_t", (Len(v) + 1) * SizeOf[t.T]) \o dump_array_to_buffer(t, v)

dump_container_to_buffer(t, v) ==
    append("uint32_t", Len(v) * SizeOf[t.T]) \o dump_array_to_buffer(t, v)

\* Scalars are collected in a pack of their own, dumped before a container
\* and at the end.
command_serializer(types, v) ==
    LET dump(t, x) == IF t.kind = "array" THEN dump_array_to_buffer(t, x)
                      ELSE dump_container_to_buffer(t, x)
        next(s, i) ==
          IF types[i].kind = "scalar"
          THEN [s EXCEPT !.pack = @ \o append(types[i].T, v[i])]
          ELSE [buffer |-> s.buffer \o s.pack \o dump(types[i], v[i]), pack |-> <<>>]
        end == FoldLeftDomain(next, [buffer |-> <<>>, pack |-> <<>>], types)
    IN  end.buffer \o end.pack

\* Four bytes are reserved.
command_header(class, func) ==
    append("uint32_t", 0) \o append("uint16_t", class) \o append("uint16_t", func)
HeaderSize == 2 * SizeOf["uint32_t"]
ClassOf(b) == extract("uint16_t", SubSeq(b, 5, 6))
FuncOf(b) == extract("uint16_t", SubSeq(b, 7, 8))

\* Mutant: no arguments are eight bytes, as in the branch of make_command that
\* send_command never takes.
PaddedCommand(class, func, types, v) ==
    command_header(class, func) \o (IF types = <<>> THEN append("uint64_t", 0)
                            ELSE command_serializer(types, v))

build_command(class, func, types, v) == command_header(class, func) \o command_serializer(types, v)

\* The values of adjacent scalars, from a buffer that holds no more than them.
deserialize(types, b) ==
    [i \in DOMAIN types |->
        LET from == required_buffer_size(SubSeq(types, 1, i - 1))
        IN  extract(types[i].T, SubSeq(b, from + 1, from + SizeOf[types[i].T]))]

\* The elements of an array or a vector.
elements(T, b) ==
    [i \in 1..(Len(b) \div SizeOf[T]) |->
        FromMemory(T, SubSeq(b, (i - 1) * SizeOf[T] + 1, i * SizeOf[T]))]
=============================================================================
