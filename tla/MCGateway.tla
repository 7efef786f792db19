----------------------------- MODULE MCGateway -----------------------------
(* Who is there while a server runs: a handset that moves an axis, or that    *)
(* sets and asks positions, or that repeats what is not answered; clients of  *)
(* two drivers that move the focuser; clients that set motor types, limits    *)
(* and positions.                                                             *)
EXTENDS Gateway

Handset(ops, letters, axes, data) ==
    [ops |-> ops \cup {"handset"}, letters |-> letters, axes |-> axes, data |-> data,
     drivers |-> {}, stations |-> IF "j" \in letters THEN {5} ELSE {}]

Clients(ops, axes, drivers) ==
    [ops |-> ops, letters |-> {}, axes |-> axes, data |-> {}, drivers |-> drivers,
     stations |-> {}]

MCUses == {
    Handset({}, {"G", "I", "J"}, {0}, {1, 2}),
    Handset({}, {"G", "H", "S", "J"}, {0}, {1, 2}),
    Handset({}, {"E", "j", "f", "F", "a"}, {0, 1}, {13}),
    Handset({"miss"}, {"E", "j", "L", "J"}, {1}, {13}),
    Handset({"miss"}, {"E", "j", "G", "I"}, {1}, {1, 15}),
    Handset({"again", "cut"}, {"J", "j", "P", "s"}, {1}, {1}),
    Clients({"FocuserMove", "stop"}, {2}, {"Focuser", "SkyTracker"}),
    Clients({"FocuserSlewTo", "set_motor_period_ticks", "set_motor_direction",
             "status", "start_tracking"}, {2}, {"Focuser", "ASCOM"}),
    Clients({"set_motor_type", "get_motor_type", "Restart"}, {0, 2}, {"SkyTracker", "ASCOM"}),
    Clients({"Initialize", "send_command", "set_current_position",
             "get_raw_stepcount"}, {2}, {"ASCOM", "Focuser"}),
    Clients({"set_min_period", "set_max_period", "set_goto_target", "status", "stop"},
            {2}, {"SkyTracker", "ASCOM"}) }

\* Handsets are alone here, as the theorems on them have it.
ASSUME MCHandsetAlone == HandsetAlone
=============================================================================
