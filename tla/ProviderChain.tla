---------------------------- MODULE ProviderChain ----------------------------
(***************************************************************************)
(* The chain of model providers (services/api/core/llm.py), the request    *)
(* budgets they are asked within (core/quota.py), the kill switch, and the *)
(* process-wide objects of services/api/deps.py that everybody shares.     *)
(*                                                                         *)
(* A caller is a thread inside LLMChain.complete or LLMChain.structured:   *)
(* five seats answer at once, in as many requests as overlap.  The budgets *)
(* are counted in memory by a Quota object, under its lock, and written    *)
(* to the table quotas under WRITE_LOCK by a connection of its own.  The   *)
(* other handlers write to the same file through the shared connection.    *)
(***************************************************************************)
EXTENDS Integers, Sequences, FiniteSets

CONSTANTS
    Callers,    \* threads that ask the chain
    Quotas,     \* Quota objects that can exist at one time
    Chain,      \* the providers, in the order they are tried; the stub is last
    Off,        \* providers whose available() is never true
    Limit,      \* the request budget of each provider
    Retries,    \* further attempts of structured
    MaxCalls,   \* bound: calls made, over all restarts
    None        \* no Quota object, no holder of a lock

VARIABLES
    quota,      \* the Quota object that deps.quota() has cached, or None
    llm,        \* the Quota object of the chain deps.llm() has cached, or None
    used,       \* Quota._used: requests counted in memory, by each object
    stored,     \* table quotas
    qlock,      \* holder of Quota._lock, of each object
    shared,     \* the transaction of the shared connection
    engaged,    \* the kill switch
    loc,        \* what each caller is doing
    calls,      \* calls made so far
    granted,    \* requests to each provider that consume said yes to
    forfeit,    \* requests that consume counted, and then raised
    raced,      \* has a second Quota object been made in one life of the process
    late        \* providers each caller's call has asked since the switch was engaged

objects == <<quota, llm>>
counters == <<used, stored, qlock>>
outside == <<shared, engaged>>
history == <<calls, granted, forfeit, raced, late>>
vars == <<objects, counters, outside, loc, history>>

Providers == {Chain[i] : i \in DOMAIN Chain}
Stub == Chain[Len(Chain)]
Kinds == {"complete", "structured"}
Reasons == {"unreachable", "exhausted", "failed"}
Phases == {"idle", "chain", "build", "wire", "check", "try", "write", "ask"}

ASSUME ChainAssumption ==
    /\ Chain \in Seq(STRING) /\ Len(Chain) > 0
    /\ \A i, j \in DOMAIN Chain : Chain[i] = Chain[j] => i = j
    /\ Stub \notin Off
ASSUME LimitAssumption == Limit \in [Providers -> Nat]
ASSUME BoundsAssumption == Retries \in Nat /\ MaxCalls \in Nat
ASSUME NoneAssumption == None \notin Callers /\ None \notin Quotas

-----------------------------------------------------------------------------
(* A call: its Quota object (q), the provider it is at (at), why those     *)
(* before were passed over in this attempt (why), attempts made before     *)
(* (tries), and did the last call of the caller find nobody (nobody).      *)

Fresh(k) == [pc |-> "chain", kind |-> k, q |-> None, at |-> 1, why |-> <<>>,
             tries |-> 0, nobody |-> FALSE]
Idle == [Fresh("complete") EXCEPT !.pc = "idle"]

Call == [pc : Phases, kind : Kinds, q : Quotas \cup {None}, at : 1..(Len(Chain) + 1),
         why : Seq(Reasons), tries : 0..Retries, nobody : BOOLEAN]

TypeOK ==
    /\ quota \in Quotas \cup {None} /\ llm \in Quotas \cup {None}
    /\ used \in [Quotas -> [Providers -> Nat]]
    /\ stored \in [Providers -> Nat]
    /\ qlock \in [Quotas -> Callers \cup {None}]
    /\ shared \in {"none", "held", "abandoned"}
    /\ engaged \in BOOLEAN
    /\ loc \in [Callers -> Call]
    /\ calls \in Nat
    /\ granted \in [Providers -> Nat] /\ forfeit \in [Providers -> Nat] /\ raced \in BOOLEAN
    /\ late \in [Callers -> SUBSET Providers]

Init ==
    /\ quota = None /\ llm = None
    /\ used = [q \in Quotas |-> [p \in Providers |-> 0]]
    /\ stored = [p \in Providers |-> 0]
    /\ qlock = [q \in Quotas |-> None]
    /\ shared = "none"
    /\ engaged = FALSE
    /\ loc = [c \in Callers |-> Idle]
    /\ calls = 0
    /\ granted = [p \in Providers |-> 0] /\ forfeit = [p \in Providers |-> 0]
    /\ raced = FALSE
    /\ late = [c \in Callers |-> {}]

\* The caller c is in phase s, at the provider p.
In(c, s) == loc[c].pc = s
At(c, p) == loc[c].at \in DOMAIN Chain /\ Chain[loc[c].at] = p

Goto(c, s) == loc' = [loc EXCEPT ![c].pc = s]

\* The call ends: the caller lets go of its Quota object.
End(c) == loc' = [loc EXCEPT ![c] = Idle]

\* The loop goes on to the next provider, and notes why.
PassOver(c, reason) ==
    loc' = [loc EXCEPT ![c].pc = "try", ![c].at = @ + 1, ![c].why = Append(@, reason)]

-----------------------------------------------------------------------------
(* deps.llm() and deps.quota(): cached by lru_cache, which keeps the first *)
(* object to be finished, and gives every caller that missed the object    *)
(* it made itself.                                                         *)

Unused(q) == q # quota /\ q # llm /\ \A c \in Callers : loc[c].q # q

Start(c) ==
    /\ In(c, "idle") /\ calls < MaxCalls
    /\ \E k \in Kinds : loc' = [loc EXCEPT ![c] = Fresh(k)]
    /\ calls' = calls + 1
    /\ late' = [late EXCEPT ![c] = {}]
    /\ UNCHANGED <<objects, counters, outside, granted, forfeit, raced>>

\* A hit, or a miss of llm() that hits quota(), or a miss of both.
GetChain(c) ==
    /\ In(c, "chain")
    /\ \/ llm # None /\ loc' = [loc EXCEPT ![c].pc = "check", ![c].q = llm]
       \/ llm = None /\ quota # None /\ loc' = [loc EXCEPT ![c].pc = "wire", ![c].q = quota]
       \/ /\ llm = None /\ quota = None
          /\ \E q \in Quotas : Unused(q) /\ loc' = [loc EXCEPT ![c].pc = "build", ![c].q = q]
    /\ UNCHANGED <<objects, counters, outside, history>>

\* Mutant of BuildQuota: the counters start from zero.
BuildFromZero(c) ==
    LET q == loc[c].q IN
    /\ In(c, "build")
    /\ used' = [used EXCEPT ![q] = [p \in Providers |-> 0]]
    /\ quota' = IF quota = None THEN q ELSE quota
    /\ raced' = (raced \/ quota # None)
    /\ Goto(c, "wire")
    /\ UNCHANGED <<llm, stored, qlock, outside, calls, granted, forfeit, late>>

\* Quota.__init__ reads the counters of an earlier run from the table.
BuildQuota(c) ==
    LET q == loc[c].q IN
    /\ In(c, "build")
    /\ used' = [used EXCEPT ![q] = stored]
    /\ quota' = IF quota = None THEN q ELSE quota
    /\ raced' = (raced \/ quota # None)
    /\ Goto(c, "wire")
    /\ UNCHANGED <<llm, stored, qlock, outside, calls, granted, forfeit, late>>

WireChain(c) ==
    /\ In(c, "wire")
    /\ llm' = IF llm = None THEN loc[c].q ELSE llm
    /\ Goto(c, "check")
    /\ UNCHANGED <<quota, counters, outside, history>>

-----------------------------------------------------------------------------
(* LLMChain.complete.                                                      *)

\* Mutant of Check: the switch is read for the first attempt only.
CheckFirst(c) ==
    /\ In(c, "check")
    /\ IF engaged /\ loc[c].tries = 0 THEN End(c)
       ELSE loc' = [loc EXCEPT ![c].pc = "try", ![c].at = 1, ![c].why = <<>>]
    /\ UNCHANGED <<objects, counters, outside, history>>

\* killswitch.check() raises, or the loop begins.
Check(c) ==
    /\ In(c, "check")
    /\ IF engaged THEN End(c)
       ELSE loc' = [loc EXCEPT ![c].pc = "try", ![c].at = 1, ![c].why = <<>>]
    /\ UNCHANGED <<objects, counters, outside, history>>

\* Mutant of Unreachable: the request is spent before the provider is probed.
UnreachableCharged(c) ==
    /\ In(c, "try") /\ loc[c].at \in DOMAIN Chain
    /\ ~At(c, Stub)
    /\ PassOver(c, "unreachable")
    /\ used' = [used EXCEPT ![loc[c].q][Chain[loc[c].at]] = @ + 1]
    /\ UNCHANGED <<objects, stored, qlock, outside, history>>

Unreachable(c) ==
    /\ In(c, "try") /\ loc[c].at \in DOMAIN Chain
    /\ ~At(c, Stub)
    /\ PassOver(c, "unreachable")
    /\ UNCHANGED <<objects, counters, outside, history>>

\* available() was true and the Quota's lock is free.
Consuming(c, p) ==
    In(c, "try") /\ At(c, p) /\ p \notin Off /\ qlock[loc[c].q] = None

Exhausted(c, p) ==
    /\ Consuming(c, p)
    /\ used[loc[c].q][p] >= Limit[p]
    /\ PassOver(c, "exhausted")
    /\ UNCHANGED <<objects, counters, outside, history>>

\* The request is counted in memory; the lock is kept until it is on disk too.
Spend(c, p) ==
    /\ Consuming(c, p)
    /\ used[loc[c].q][p] < Limit[p]
    /\ used' = [used EXCEPT ![loc[c].q][p] = @ + 1]
    /\ qlock' = [qlock EXCEPT ![loc[c].q] = c]
    /\ Goto(c, "write")
    /\ UNCHANGED <<objects, stored, outside, history>>

\* With WRITE_LOCK: no other handler is in its transaction.  The provider is asked.
Write(c, p) ==
    /\ In(c, "write") /\ At(c, p) /\ shared = "none"
    /\ stored' = [stored EXCEPT ![p] = used[loc[c].q][p]]
    /\ qlock' = [qlock EXCEPT ![loc[c].q] = None]
    /\ granted' = [granted EXCEPT ![p] = @ + 1]
    /\ late' = [late EXCEPT ![c] = IF engaged THEN @ \cup {p} ELSE @]
    /\ Goto(c, "ask")
    /\ UNCHANGED <<objects, used, outside, calls, forfeit, raced>>

\* Mutant of WriteFails: the error leaves the lock taken.
WriteFailsLocked(c, p) ==
    /\ In(c, "write") /\ At(c, p) /\ shared = "abandoned"
    /\ forfeit' = [forfeit EXCEPT ![p] = @ + 1]
    /\ End(c)
    /\ UNCHANGED <<objects, counters, outside, calls, granted, raced, late>>

\* "database is locked": consume raises, outside the try of complete.
WriteFails(c, p) ==
    /\ In(c, "write") /\ At(c, p) /\ shared = "abandoned"
    /\ qlock' = [qlock EXCEPT ![loc[c].q] = None]
    /\ forfeit' = [forfeit EXCEPT ![p] = @ + 1]
    /\ End(c)
    /\ UNCHANGED <<objects, used, stored, outside, calls, granted, raced, late>>

Fail(c) ==
    /\ In(c, "ask") /\ ~At(c, Stub)
    /\ PassOver(c, "failed")
    /\ UNCHANGED <<objects, counters, outside, history>>

Answer(c) ==
    /\ In(c, "ask")
    /\ End(c)
    /\ UNCHANGED <<objects, counters, outside, history>>

\* Mutant of Malformed: one attempt too many.
MalformedAgain(c) ==
    /\ In(c, "ask") /\ ~At(c, Stub) /\ loc[c].kind = "structured"
    /\ IF loc[c].tries <= Retries
       THEN loc' = [loc EXCEPT ![c].pc = "check", ![c].tries = @ + 1]
       ELSE End(c)
    /\ UNCHANGED <<objects, counters, outside, history>>

\* structured: the reply does not validate and is asked for again, or given up.
\* The replies of the stub always validate.
Malformed(c) ==
    /\ In(c, "ask") /\ ~At(c, Stub) /\ loc[c].kind = "structured"
    /\ IF loc[c].tries < Retries
       THEN loc' = [loc EXCEPT ![c].pc = "check", ![c].tries = @ + 1]
       ELSE End(c)
    /\ UNCHANGED <<objects, counters, outside, history>>

NoProvider(c) ==
    /\ In(c, "try") /\ loc[c].at > Len(Chain)
    /\ loc' = [loc EXCEPT ![c] = [Idle EXCEPT !.nobody = TRUE]]
    /\ UNCHANGED <<objects, counters, outside, history>>

-----------------------------------------------------------------------------
(* The rest of the process.                                                *)

\* Another handler inserts under WRITE_LOCK; its COMMIT covers what an earlier
\* one left.
SharedBegin ==
    /\ shared # "held"
    /\ shared' = "held"
    /\ UNCHANGED <<objects, counters, engaged, loc, history>>

SharedCommit ==
    /\ shared = "held"
    /\ shared' = "none"
    /\ UNCHANGED <<objects, counters, engaged, loc, history>>

\* It raises between its INSERT and its COMMIT: nobody rolls back.
SharedFail ==
    /\ shared = "held"
    /\ shared' = "abandoned"
    /\ UNCHANGED <<objects, counters, engaged, loc, history>>

Engage ==
    /\ ~engaged /\ engaged' = TRUE
    /\ UNCHANGED <<objects, counters, shared, loc, history>>

Release ==
    /\ engaged /\ engaged' = FALSE
    /\ late' = [c \in Callers |-> {}]
    /\ UNCHANGED <<objects, counters, shared, loc, calls, granted, forfeit, raced>>

\* The process restarts: the table is what remains.
Crash ==
    /\ quota' = None /\ llm' = None
    /\ used' = [q \in Quotas |-> [p \in Providers |-> 0]]
    /\ qlock' = [q \in Quotas |-> None]
    /\ shared' = "none"
    /\ engaged' = FALSE
    /\ loc' = [c \in Callers |-> Idle]
    /\ late' = [c \in Callers |-> {}]
    /\ UNCHANGED <<stored, calls, granted, forfeit, raced>>

\* What a call that has begun does next.
Step(c) ==
    \/ GetChain(c) \/ BuildQuota(c) \/ WireChain(c) \/ Check(c)
    \/ Unreachable(c) \/ Fail(c) \/ Answer(c) \/ Malformed(c) \/ NoProvider(c)
    \/ \E p \in Providers :
         Exhausted(c, p) \/ Spend(c, p) \/ Write(c, p) \/ WriteFails(c, p)

Environment ==
    SharedBegin \/ SharedCommit \/ SharedFail \/ Engage \/ Release \/ Crash

Next == (\E c \in Callers : Start(c) \/ Step(c)) \/ Environment

Spec == Init /\ [][Next]_vars

\* A thread runs on, and gets a lock that is free again and again; another
\* handler's transaction ends.
FairSpec ==
    /\ Spec
    /\ \A c \in Callers :
        /\ WF_vars(Step(c))
        /\ SF_vars(\E p \in Providers : Exhausted(c, p) \/ Spend(c, p))
        /\ SF_vars(\E p \in Providers : Write(c, p) \/ WriteFails(c, p))
    /\ WF_vars(SharedCommit \/ SharedFail)

-----------------------------------------------------------------------------
(* Properties.                                                             *)

\* A budget is kept through restarts and failed writes: until the first uses of the
\* chain have overlapped once and made two Quota objects, no provider is asked more
\* often than the table says, nor than its limit, and the counters that the
\* administrator is shown never lag behind the table (Quota.consume, snapshot).
BudgetHolds ==
    ~raced =>
        /\ \A p \in Providers : granted[p] <= stored[p] /\ stored[p] <= Limit[p]
        /\ quota # None =>
             \A p \in Providers : stored[p] <= used[quota][p] /\ used[quota][p] <= Limit[p]

\* A request count is exact (core/quota.py): the table never says fewer requests than
\* were made, however many Quota objects count them (deps.quota is cached unlocked).
CountExact == \A p \in Providers : granted[p] <= stored[p]

\* However many Quota objects the first users of the chain make, each keeps its budget:
\* whoever is between counting a request and writing it holds the lock of the object it
\* counts with, a lock is held by nobody else, and no object, nor the table, counts past
\* the limit (Quota.consume).
LockedUntilWritten ==
    /\ \A c \in Callers, q \in Quotas : qlock[q] = c <=> In(c, "write") /\ loc[c].q = q
    /\ \A p \in Providers :
          stored[p] <= Limit[p] /\ \A q \in Quotas : used[q][p] <= Limit[p]

\* A provider is passed over as exhausted, and a call finds nobody to answer it,
\* only when the requests of its budget were in fact made, or counted by a consume
\* that raised: a restart or a provider that was unreachable costs none
\* (LLMChain.complete, Quota.consume).
Spent(p) == granted[p] + forfeit[p] >= Limit[p]
SpentWhenRefused ==
    \A c \in Callers :
        /\ \A i \in DOMAIN loc[c].why : loc[c].why[i] = "exhausted" => Spent(Chain[i])
        /\ loc[c].nobody => Spent(Stub)

\* The caller's provider is sent its request in this step.
Sends(c) == In(c, "write") /\ loc'[c].pc = "ask"

\* The switch stops what is under way, a call with its retries included: while
\* it stays engaged, a call that slipped by goes through the chain once at
\* most (killswitch.check at the head of complete).
OnceThroughAtMost ==
    [][\A c \in Callers : Sends(c) /\ engaged => Chain[loc[c].at] \notin late[c]]_vars

\* Every call ends, also when consume raises with the locks held or other
\* handlers keep writing: locks are given back (the with blocks of Quota.consume).
CallEnds == \A c \in Callers : ~In(c, "idle") ~> In(c, "idle")

=============================================================================
