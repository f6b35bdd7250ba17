------------------------ MODULE RequestDeduplicator ------------------------
(***************************************************************************)
(* RequestDeduplicator.dedupe for one key: the first caller becomes the    *)
(* leader and runs the request, callers that come meanwhile follow its     *)
(* future.  A leader may fail, or be cancelled by a client that            *)
(* disconnects: a follower then takes over, at most Retries times per      *)
(* call.  clear() forgets the entry when the endpoint has changed.         *)
(*                                                                         *)
(* The asyncio.Lock is never held across an await, so a coroutine runs     *)
(* from one await to the next in one action.  A caller is a call; a future *)
(* is named by the call that made it, which makes at most one.             *)
(***************************************************************************)
EXTENDS RequestDeduplicatorState

CONSTANT Admits \* the circumstances of this instance

Circumstances ==
    {"clearInFlight"} \* the entry is cleared while its leader runs

vars == <<pending, future, call, current>>

FutureStates == {"none", "pending", "result", "exception", "cancelled"}

TypeOK ==
    /\ pending \in Callers \union {NoCaller}
    /\ future \in [Callers -> FutureStates]
    /\ call \in [Callers -> [at : {"new", "leading", "following", "over"},
                             leader : Callers \union {NoCaller}, retries : 0 .. Retries + 1,
                             answer : {"none", "result", "exception", "cancelled"}]]
    /\ current \subseteq Callers

Init ==
    /\ pending = NoCaller
    /\ future = [c \in Callers |-> "none"]
    /\ call = [c \in Callers |-> [at |-> "new", leader |-> NoCaller, retries |-> 0, answer |-> "none"]]
    /\ current = {}

-----------------------------------------------------------------------------
\* The head of the loop: follow the entry there is, or make one.
Enter(c, retries) ==
    IF pending # NoCaller
    THEN /\ call' = [call EXCEPT ![c] = [@ EXCEPT !.at = "following", !.leader = pending,
                                                  !.retries = retries]]
         /\ UNCHANGED <<pending, future, current>>
    ELSE /\ call' = [call EXCEPT ![c] = [@ EXCEPT !.at = "leading", !.leader = NoCaller,
                                                  !.retries = retries]]
         /\ pending' = c
         /\ future' = [future EXCEPT ![c] = "pending"]
         /\ current' = current \union {c}

Answered(c, answer) == call' = [call EXCEPT ![c] = [@ EXCEPT !.at = "over", !.answer = answer]]

Call(c) == call[c].at = "new" /\ Enter(c, 0)

\* Mutant of Settled: a cancelled leader leaves its future as it is.
SettledUnlessCancelled(outcome) == IF outcome = "cancelled" THEN "pending" ELSE outcome

Settled(outcome) == outcome

\* coro_factory returns, raises or is cancelled; the future is settled and the entry
\* popped, whoever's it is.
LeaderEnds(c, outcome) ==
    /\ call[c].at = "leading"
    /\ Answered(c, outcome)
    /\ future' = [future EXCEPT ![c] = Settled(outcome)]
    /\ pending' = NoCaller
    /\ UNCHANGED current

\* Mutant of Retry: the follower becomes the leader without looking for an entry.
RetryUnseen(c) ==
    /\ call' = [call EXCEPT ![c] = [@ EXCEPT !.at = "leading", !.leader = NoCaller, !.retries = @ + 1]]
    /\ pending' = c
    /\ future' = [future EXCEPT ![c] = "pending"]
    /\ current' = current \union {c}

Retry(c) == Enter(c, call[c].retries + 1)

\* The shielded await ends: with the leader's result, or because its future was cancelled.
FollowerWakes(c) ==
    LET outcome == future[call[c].leader] IN
    /\ call[c].at = "following" /\ outcome # "pending"
    /\ IF outcome = "cancelled" /\ call[c].retries < Retries
       THEN Retry(c)
       ELSE Answered(c, outcome) /\ UNCHANGED <<pending, future, current>>

\* The follower itself is cancelled: the shield keeps the future from it.
FollowerCancelled(c) ==
    /\ call[c].at = "following"
    /\ Answered(c, "cancelled")
    /\ UNCHANGED <<pending, future, current>>

Clear ==
    /\ pending # NoCaller => "clearInFlight" \in Admits
    /\ pending' = NoCaller
    /\ current' = {}
    /\ UNCHANGED <<future, call>>

CallerStep(c) ==
    \/ \E outcome \in {"result", "exception", "cancelled"} : LeaderEnds(c, outcome)
    \/ FollowerWakes(c)

Next == (\E c \in Callers : Call(c) \/ CallerStep(c) \/ FollowerCancelled(c)) \/ Clear

Spec == Init /\ [][Next]_vars

\* The event loop runs what can run, and requests end.
FairSpec == Spec /\ \A c \in Callers : WF_vars(CallerStep(c))

-----------------------------------------------------------------------------
(* The property of its state is in RequestDeduplicatorState. *)

\* A call is always answered, also one that follows a leader that fails, disconnects or
\* was forgotten by clear.
CallsAnswered == \A c \in Callers : call[c].at \in {"leading", "following"} ~> call[c].at = "over"
=============================================================================
