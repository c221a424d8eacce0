------------------------ MODULE AsyncGeneratorRequests ------------------------
(***************************************************************************)
(* What an async generator promises about the promises that its next,      *)
(* return and throw hand out: they settle in the order of the calls, each  *)
(* once, and once a reply has said that the generator is done, what a call *)
(* is replied follows from the call alone.  AsyncGenerator is the code.    *)
(***************************************************************************)
EXTENDS Integers, Sequences

CONSTANTS
  MaxRequested,             \* BOUND on the calls
  Unreplied

VARIABLES
  requested,                \* the calls, in order
  replies                   \* of each call, its reply or Unreplied

vars == <<requested, replies>>

RequestKinds == {"next", "return", "throw"}

\* of: the call whose argument the reply carries, 0 for a value of the body's.
Reply == [how : {"yield", "done", "reject"}, of : 0 .. MaxRequested]

Init == requested = <<>> /\ replies = <<>>

Request ==
  /\ Len(requested) < MaxRequested
  /\ \E kind \in RequestKinds : requested' = Append(requested, kind)
  /\ replies' = Append(replies, Unreplied)

IsFront(i) == replies[i] = Unreplied /\ \A j \in 1 .. i - 1 : replies[j] # Unreplied

\* The body may yield, return or throw; what it throws or returns may be what
\* the call gave it.
WhileOpen(i) ==
  {r \in Reply :
     \/ r.of = 0
     \/ r.of = i /\ <<requested[i], r.how>> \in
          {<<"return", "done">>, <<"return", "reject">>, <<"throw", "reject">>}}

\* A return should carry its own argument.  The code can hand it that of an
\* earlier return (OwnReply in AsyncGenerator), so no more is promised here.
OnceDone(i) ==
  {r \in Reply :
     CASE requested[i] = "next"   -> r = [how |-> "done", of |-> 0]
       [] requested[i] = "throw"  -> r = [how |-> "reject", of |-> i]
       [] requested[i] = "return" ->
            /\ r.how \in {"done", "reject"}
            /\ r.of \in DOMAIN requested /\ requested[r.of] = "return"}

Done(i) == \E j \in 1 .. i - 1 : replies[j] \in Reply /\ replies[j].how # "yield"

Settle ==
  /\ \E i \in DOMAIN replies :
       /\ IsFront(i)
       /\ \E r \in (IF Done(i) THEN OnceDone(i) ELSE WhileOpen(i)) :
            replies' = [replies EXCEPT ![i] = r]
  /\ UNCHANGED requested

Next == Request \/ Settle

Spec == Init /\ [][Next]_vars

=============================================================================
