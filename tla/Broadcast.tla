------------------------------ MODULE Broadcast ------------------------------
(***************************************************************************)
(* The websocket manager: staff sockets join and leave the front desk      *)
(* channel while order requests broadcast to it, one send after the other  *)
(* with an await at each.  The loop runs over the live set, so a set that  *)
(* another task has made smaller or larger ends it with a RuntimeError,    *)
(* and the order request, already committed, answers with an error.        *)
(***************************************************************************)
EXTENDS Naturals, FiniteSets

CONSTANTS Sockets,      \* the sockets that may ever connect
          Broadcasts    \* order requests that announce a committed change

VARIABLES channel,      \* manager.connections['frontdesk']
          broken,       \* sockets whose peer is gone: a send to them raises
          casts         \* broadcast -> its loop

castVars == <<channel, broken, casts>>

Waiting == [at |-> "waiting"]
Loop == [at |-> "loop", size |-> Cardinality(channel), began |-> channel,
         dead |-> {}, got |-> {}, joined |-> FALSE]

BroadcastInit ==
    /\ channel = {}
    /\ broken = {}
    /\ casts = [c \in Broadcasts |-> Waiting]

(* frontdesk_ws: a staff token of an active user, then manager.connect.    *)
Connect(s) ==
    /\ s \notin channel \cup broken
    /\ channel' = channel \cup {s}
    /\ casts' = [c \in Broadcasts |->
                    IF casts[c].at = "loop" THEN [casts[c] EXCEPT !.joined = TRUE] ELSE casts[c]]
    /\ UNCHANGED broken

(* The peer goes away.  Its own task notices and discards the socket, or   *)
(* is late: until then a send to it fails.                                 *)
Break(s) ==
    /\ s \in channel \ broken
    /\ broken' = broken \cup {s}
    /\ UNCHANGED <<channel, casts>>

Disconnect(s) ==
    /\ s \in channel \cap broken
    /\ channel' = channel \ {s}
    /\ UNCHANGED <<broken, casts>>

StartBroadcast(c) ==
    /\ casts[c] = Waiting
    /\ casts' = [casts EXCEPT ![c] = Loop]
    /\ UNCHANGED <<channel, broken>>

(* The iterator only compares the size of the set with the size it began   *)
(* with.  A set of equal size with other members goes on: what it still    *)
(* visits is then any of the remaining members.                            *)
Intact(c) == casts[c].at = "loop" /\ Cardinality(channel) = casts[c].size
Visitable(c) == (channel \ casts[c].got) \ casts[c].dead

\* Mutant: the first failed send ends the loop quietly.
SendUntilError(c, s) ==
    /\ Intact(c) /\ s \in Visitable(c)
    /\ casts' = [casts EXCEPT ![c] =
          IF s \in broken THEN [@ EXCEPT !.at = "done"] ELSE [@ EXCEPT !.got = @ \cup {s}]]
    /\ UNCHANGED <<channel, broken>>

Sent(cast, s) ==
    IF s \in broken THEN [cast EXCEPT !.dead = @ \cup {s}] ELSE [cast EXCEPT !.got = @ \cup {s}]

SendNext(c, s) ==
    /\ Intact(c) /\ s \in Visitable(c)
    /\ casts' = [casts EXCEPT ![c] = Sent(@, s)]
    /\ UNCHANGED <<channel, broken>>

Finish(c) ==
    /\ Intact(c)
    /\ Visitable(c) = {} \/ casts[c].joined
    /\ channel' = channel \ casts[c].dead
    /\ casts' = [casts EXCEPT ![c].at = "done"]
    /\ UNCHANGED broken

RaiseSizeChanged(c) ==
    /\ casts[c].at = "loop" /\ ~Intact(c)
    /\ casts' = [casts EXCEPT ![c] = [at |-> "failed"]]
    /\ UNCHANGED <<channel, broken>>

BroadcastNext ==
    \/ \E s \in Sockets : Connect(s) \/ Break(s) \/ Disconnect(s)
    \/ \E c \in Broadcasts : \/ StartBroadcast(c)
                             \/ \E s \in Sockets : SendNext(c, s)
                             \/ Finish(c)
                             \/ RaiseSizeChanged(c)

BroadcastSpec == BroadcastInit /\ [][BroadcastNext]_castVars

(* A broadcast that finishes while nobody joined has sent its event to     *)
(* every socket of the channel that was still there: other broadcasts that *)
(* drop dead sockets, and sockets that leave, never make it skip one.      *)
CompletedReachesAll ==
    \A c \in Broadcasts :
        casts[c].at = "done" /\ ~casts[c].joined => casts[c].began \subseteq casts[c].got \cup casts[c].dead
=============================================================================
