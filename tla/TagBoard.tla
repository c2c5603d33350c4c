------------------------------ MODULE TagBoard ------------------------------
(* What the gateway promises about the tags ThingsBoard shows: in every session a tag is      *)
(* introduced before anything it reports is told; that it is out of range is told only when   *)
(* that is owed, and a tag that is in range owes nothing.  While the gateway waits for its    *)
(* restart it promises only never to call a tag out of range that it holds to be in range.    *)

CONSTANT Tag

VARIABLES
  here,         \* the tags held to be in range
  owed,         \* the tags whose going out of range has yet to be told
  board,        \* what was last told of each tag
  introduced,   \* the tags introduced in this session
  leaving       \* the gateway has forgotten its tags and is about to restart

vars == <<here, owed, board, introduced, leaving>>

Init == /\ here = {} /\ owed = {} /\ board = [t \in Tag |-> "nothing"]
        /\ introduced = {} /\ leaving = FALSE

\* A tag is heard of: what was owed no longer is.
Hear(t) == /\ here' = here \cup {t} /\ owed' = owed \ {t}
           /\ UNCHANGED <<board, introduced, leaving>>
\* A tag has been silent for too long.
Miss(t) == /\ t \in here
           /\ here' = here \ {t} /\ owed' = owed \cup {t}
           /\ UNCHANGED <<board, introduced, leaving>>
\* A session begins; in it tags are introduced one by one or, at its beginning, with what is owed.
Begin         == introduced' = {} /\ UNCHANGED <<here, owed, board, leaving>>
Introduce(ts) == introduced' = introduced \cup ts
TellOut(ts)   == /\ ts \cap here = {} /\ (ts \subseteq owed \/ leaving)
                 /\ owed' = owed \ ts
                 /\ board' = [t \in Tag |-> IF t \in ts THEN "out" ELSE board[t]]
                 /\ UNCHANGED <<here, leaving>>
TellSeen(t)   == /\ t \in introduced \/ leaving
                 /\ board' = [board EXCEPT ![t] = "seen"]
                 /\ UNCHANGED <<here, owed, introduced, leaving>>

\* The gateway forgets its tags, and restarts.
Leave   == /\ ~leaving /\ leaving' = TRUE /\ here' = {} /\ owed' = {}
           /\ UNCHANGED <<board, introduced>>
Restart == /\ leaving /\ leaving' = FALSE
           /\ here' = {} /\ owed' = {} /\ introduced' = {}
           /\ UNCHANGED board

Next ==
  \/ \E t \in Tag : Hear(t) \/ Miss(t) \/ TellSeen(t)
  \/ \E new, ts \in SUBSET Tag : Introduce(new) /\ TellOut(ts)
  \/ Begin \/ Leave \/ Restart
Spec == Init /\ [][Next]_vars
=============================================================================
