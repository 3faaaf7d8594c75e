-------------------------- MODULE TransitionReplay --------------------------
(***************************************************************************)
(* What the dongle promises to the host, with no ring, no lock and no      *)
(* task: every fused state received is played once, in the order of its    *)
(* reception.  Only a full queue may replace a pending state, by a more    *)
(* recent one and by counting it; only a muted dongle may drop some, and   *)
(* it then starts again from the current state.                            *)
(***************************************************************************)
EXTENDS Integers, Sequences

CONSTANTS
    States,     \* the fused states of the two halves
    Rien,       \* the state with no key down
    Room,       \* how many states may be pending
    LostMod     \* the counter of replaced states is modulo this

VARIABLES
    current,    \* the state of the two halves, as last known
    pending,    \* the states received and not yet played
    host,       \* the last state sent to the host
    muted,      \* another keyboard types
    lost        \* how many pending states were replaced

vars == <<current, pending, host, muted, lost>>

Init == /\ current = Rien
        /\ pending = << >>
        /\ host = Rien
        /\ muted = FALSE
        /\ lost = 0

\* A new state: one more to play, or the most recent one replaced.
Receive(s) ==
    /\ s # current
    /\ current' = s
    /\ \/ /\ pending' = Append(pending, s)
          /\ lost' = lost
       \/ /\ Len(pending) >= Room
          /\ pending' = [pending EXCEPT ![Len(pending)] = s]
          /\ lost' = (lost + 1) % LostMod
    /\ UNCHANGED <<host, muted>>

Play == /\ pending # << >>
        /\ host' = Head(pending)
        /\ pending' = Tail(pending)
        /\ UNCHANGED <<current, muted, lost>>

\* The host is sent the empty state when the dongle stops typing ...
Mute == /\ host' = Rien
        /\ muted' = TRUE
        /\ UNCHANGED <<current, pending, lost>>

\* ... and what is received meanwhile is dropped.
Discard == /\ muted
           /\ pending' = << >>
           /\ UNCHANGED <<current, host, muted, lost>>

\* Typing again starts from the current state, played once.
Resume == /\ muted
          /\ muted' = FALSE
          /\ pending' = IF pending = << >> THEN <<current>> ELSE pending
          /\ UNCHANGED <<current, host, lost>>

\* The current state may be played once more when there is nothing else to.
Repeat == /\ pending = << >>
          /\ pending' = <<current>>
          /\ UNCHANGED <<current, host, muted, lost>>

\* A lost link releases the host, never behind the back of the queue: what
\* the host is deprived of is either empty or about to be played again.
Cut == /\ current = Rien \/ pending # << >> \/ muted
       /\ host' = Rien
       /\ UNCHANGED <<current, pending, muted, lost>>

Next == \/ \E s \in States : Receive(s)
        \/ Play \/ Mute \/ Discard \/ Resume \/ Repeat \/ Cut

Spec == Init /\ [][Next]_vars
=============================================================================
