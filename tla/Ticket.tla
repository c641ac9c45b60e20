------------------------------- MODULE Ticket -------------------------------
(***************************************************************************)
(* What mailed reset links promise: a link is opened once, it is traded    *)
(* for one capability, and the capability sets one password.  It can die   *)
(* at any point before that (a newer link, a revocation, a rejected        *)
(* password, a crash) and nothing brings it back.                          *)
(***************************************************************************)
EXTENDS Naturals

CONSTANT Link

VARIABLES
  state,    \* how far each link has come
  resets    \* the passwords it has set

ticketVars == <<state, resets>>

TicketInit ==
  /\ state = [m \in Link |-> "none"]
  /\ resets = [m \in Link |-> 0]

Sets(m, n) == resets'[m] = resets[m] + n

Advance(m, from, to) == state[m] = from /\ state'[m] = to

Mailed(m) == Advance(m, "none", "open") /\ Sets(m, 0)
Claimed(m) == Advance(m, "open", "held") /\ Sets(m, 0)
Traded(m) == Advance(m, "held", "cap") /\ Sets(m, 0)
Spent(m) == Advance(m, "cap", "spent") /\ Sets(m, 1)
Void(m) == state[m] # "spent" /\ state'[m] = "dead" /\ Sets(m, 0)
Stay(m) == state'[m] = state[m] /\ Sets(m, 0)

\* One statement may void several links while it moves another one.
TicketNext ==
  \A m \in Link : Mailed(m) \/ Claimed(m) \/ Traded(m) \/ Spent(m) \/ Void(m) \/ Stay(m)

TicketSpec == TicketInit /\ [][TicketNext]_ticketVars

=============================================================================
