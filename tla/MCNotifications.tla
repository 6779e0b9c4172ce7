--------------------------- MODULE MCNotifications ---------------------------
(* A channel with quiet hours over midnight or within a day, or without, in   *)
(* zones whose clocks go one hour, two units of six a day, back or forward.   *)
EXTENDS Notifications

CONSTANTS s1, s2, cb1, cb2

Pref(on, digest, x, y, b, n) ==
    [enabled |-> on, digest |-> digest, quiet |-> [start |-> x, end |-> y], bypass |-> b,
     zone |-> [at |-> 8, by |-> n]]

MCPreferences ==
    {Pref(TRUE, FALSE, q[1], q[2], q[1] < q[2], n) :
        q \in {<<1, 3>>, <<5, 1>>, <<5, 2>>, <<0, 0>>}, n \in {-2, 0, 2}}
    \union {Pref(FALSE, FALSE, 0, 0, FALSE, 0), Pref(TRUE, TRUE, 0, 0, FALSE, 0)}
=============================================================================
