------------------------ MODULE ProviderChainProofs ------------------------
(***************************************************************************)
(* Proofs about ProviderChain, for any number of callers, providers and    *)
(* Quota objects and any limits: the budget holds until the first uses of  *)
(* the chain overlap; that every Quota object keeps its own, that a        *)
(* provider is passed over as exhausted only when it is, and what the kill *)
(* switch stops, holds whether they do or not.                             *)
(***************************************************************************)
EXTENDS ProviderChain, TLAPS

USE DEF objects, counters, outside, history

\* A caller that is past deps.llm() has an object, and one that it is still building is
\* nobody else's.
OwnObject ==
    /\ \A c \in Callers :
        loc[c].pc \in {"build", "wire", "check", "try", "write", "ask"} => loc[c].q # None
    /\ \A c \in Callers : In(c, "build") =>
        /\ loc[c].q # quota /\ loc[c].q # llm
        /\ \A d \in Callers \ {c} : loc[d].q # loc[c].q

\* Who is asked, or counted, is in the chain.
InChain ==
    \A c \in Callers : loc[c].pc \in {"write", "ask"} => loc[c].at \in DOMAIN Chain

\* While one Quota object was made at a time, everybody counts with the one that
\* deps.quota() cached, ...
OneObject ==
    /\ llm # None => llm = quota
    /\ \A c \in Callers :
        /\ loc[c].pc \in {"idle", "chain"} => loc[c].q = None
        /\ loc[c].pc \in {"wire", "check", "try", "write", "ask"} =>
              loc[c].q # None /\ loc[c].q = quota

\* ... and the table is behind memory for the provider being written only.
SpenderHoldsLock ==
    \A c \in Callers : In(c, "write") =>
        LET q == loc[c].q IN
        /\ qlock[q] = c
        /\ used[q][Chain[loc[c].at]] > stored[Chain[loc[c].at]]

\* What holds whether first uses overlap or not, and what while they have not.
Base == TypeOK /\ OwnObject /\ InChain /\ LockedUntilWritten
Inv == Base /\ (raced \/ (OneObject /\ SpenderHoldsLock)) /\ BudgetHolds

-----------------------------------------------------------------------------
(* What a step does to the call of one caller.                             *)

\* There is a provider, and the stub is one.
LEMMA ChainFacts ==
    /\ Len(Chain) \in Nat \ {0} /\ DOMAIN Chain = 1..Len(Chain)
    /\ \A i \in DOMAIN Chain : Chain[i] \in Providers
BY ChainAssumption DEF Providers

\* A fresh call is a call.
LEMMA FreshType == \A k \in Kinds : Fresh(k) \in Call
BY ChainFacts, BoundsAssumption
   DEF Fresh, Call, Kinds, Phases

\* A caller that moves to another phase stays well typed.
LEMMA GotoType ==
    ASSUME loc \in [Callers -> Call], NEW c \in Callers, NEW s \in Phases, Goto(c, s)
    PROVE  loc' \in [Callers -> Call]
BY DEF Goto, Call

\* So does one whose call ends.
LEMMA EndType ==
    ASSUME loc \in [Callers -> Call], NEW c \in Callers, End(c) \/ NoProvider(c)
    PROVE  loc' \in [Callers -> Call]
<1>1. Idle \in Call /\ [Idle EXCEPT !.nobody = TRUE] \in Call
    BY FreshType DEF Idle, Fresh, Call, Kinds, Phases
<1> QED BY <1>1 DEF End, NoProvider

\* It is idle, with no object and no reasons, and may remember that nobody answered.
LEMMA EndEffect ==
    ASSUME loc \in [Callers -> Call], NEW c \in Callers, End(c) \/ NoProvider(c)
    PROVE  /\ loc'[c].pc = "idle" /\ loc'[c].q = None /\ loc'[c].why = <<>>
           /\ loc'[c].nobody => NoProvider(c)
           /\ \A d \in Callers \ {c} : loc'[d] = loc[d]
<1>1. CASE End(c)
    <2>1. loc'[c] = Idle /\ \A d \in Callers \ {c} : loc'[d] = loc[d]
        BY <1>1 DEF End
    <2> QED BY <2>1 DEF Idle, Fresh
<1>2. CASE NoProvider(c)
    <2> DEFINE new == [Idle EXCEPT !.nobody = TRUE]
    <2>1. loc' = [loc EXCEPT ![c] = new]
        BY <1>2, Zenon DEF NoProvider
    <2>2. new.pc = "idle" /\ new.q = None /\ new.why = <<>>
        BY DEF Idle, Fresh
    <2> HIDE DEF new
    <2>3. loc'[c] = new /\ \A d \in Callers \ {c} : loc'[d] = loc[d]
        BY <2>1
    <2> QED BY <1>2, <2>2, <2>3
<1> QED BY <1>1, <1>2

\* And one that passes a provider of the chain over.
LEMMA PassOverType ==
    ASSUME loc \in [Callers -> Call], NEW c \in Callers, loc[c].at \in DOMAIN Chain,
           NEW reason \in Reasons, PassOver(c, reason)
    PROVE  loc' \in [Callers -> Call]
<1> DEFINE new == [loc[c] EXCEPT !.pc = "try", !.at = @ + 1, !.why = Append(@, reason)]
<1>1. loc[c].at + 1 \in 1..(Len(Chain) + 1)
    BY ChainFacts
<1>2. Append(loc[c].why, reason) \in Seq(Reasons)
    BY DEF Call
<1>3. "try" \in Phases
    BY DEF Phases
<1>4. new \in Call
    BY <1>1, <1>2, <1>3 DEF Call
<1>5. loc' = [loc EXCEPT ![c] = new]
    BY Zenon DEF PassOver
<1> QED BY <1>4, <1>5

\* It is back in the loop, one provider on, with the object it had.
LEMMA PassOverEffect ==
    ASSUME loc \in [Callers -> Call], NEW c \in Callers, NEW reason \in Reasons,
           PassOver(c, reason)
    PROVE  loc'[c].pc = "try" /\ loc'[c].q = loc[c].q /\ loc'[c].at = loc[c].at + 1
<1> DEFINE new == [loc[c] EXCEPT !.pc = "try", !.at = @ + 1, !.why = Append(@, reason)]
<1>1. new.pc = "try" /\ new.q = loc[c].q /\ new.at = loc[c].at + 1
    BY DEF Call
<1>2. loc' = [loc EXCEPT ![c] = new]
    BY Zenon DEF PassOver
<1> QED BY <1>1, <1>2

-----------------------------------------------------------------------------
(* Type correctness.                                                       *)

LEMMA TypeInit == Init => TypeOK
<1> SUFFICES ASSUME Init PROVE TypeOK
    OBVIOUS
<1>1. Idle \in Call
    <2>1. Fresh("complete") \in Call
        BY FreshType DEF Kinds
    <2> QED BY <2>1 DEF Idle, Call, Phases
<1> QED BY <1>1 DEF Init, TypeOK

LEMMA TypeStart ==
    ASSUME TypeOK, NEW c \in Callers, Start(c) PROVE TypeOK'
BY FreshType DEF TypeOK, Start

LEMMA TypeGetChain ==
    ASSUME TypeOK, NEW c \in Callers, GetChain(c) PROVE TypeOK'
<1>1. ASSUME NEW q \in Quotas \cup {None}, NEW s \in Phases,
             loc' = [loc EXCEPT ![c].pc = s, ![c].q = q]
      PROVE  loc' \in [Callers -> Call]
    <2> DEFINE new == [loc[c] EXCEPT !.pc = s, !.q = q]
    <2>1. new \in Call
        BY DEF TypeOK, Call
    <2>2. loc' = [loc EXCEPT ![c] = new]
        BY <1>1, Zenon
    <2> QED BY <2>1, <2>2 DEF TypeOK
<1>2. {"check", "wire", "build"} \subseteq Phases
    BY DEF Phases
<1>3. loc' \in [Callers -> Call]
    BY <1>1, <1>2 DEF GetChain, TypeOK
<1> QED BY <1>3 DEF GetChain, TypeOK

LEMMA TypeBuildWire ==
    ASSUME TypeOK, NEW c \in Callers, BuildQuota(c) \/ WireChain(c) PROVE TypeOK'
<1>1. loc' \in [Callers -> Call]
    BY GotoType DEF BuildQuota, WireChain, TypeOK, Phases
<1>2. loc[c].q \in Quotas \cup {None}
    BY DEF TypeOK, Call
<1> QED BY <1>1, <1>2 DEF BuildQuota, WireChain, TypeOK

LEMMA TypeCheck ==
    ASSUME TypeOK, NEW c \in Callers, Check(c) PROVE TypeOK'
<1>1. CASE End(c)
    BY <1>1, EndType DEF Check, TypeOK
<1>2. CASE loc' = [loc EXCEPT ![c].pc = "try", ![c].at = 1, ![c].why = <<>>]
    <2> DEFINE new == [loc[c] EXCEPT !.pc = "try", !.at = 1, !.why = <<>>]
    <2>0. <<>> \in Seq(Reasons) /\ 1 \in 1..(Len(Chain) + 1) /\ "try" \in Phases
        BY ChainFacts DEF Phases
    <2>1. new \in Call
        BY <2>0 DEF TypeOK, Call
    <2>2. loc' = [loc EXCEPT ![c] = new]
        BY <1>2, Zenon
    <2>3. loc' \in [Callers -> Call]
        BY <2>1, <2>2 DEF TypeOK
    <2> QED BY <2>3 DEF Check, TypeOK
<1> QED BY <1>1, <1>2 DEF Check

LEMMA TypePassOver ==
    ASSUME TypeOK, NEW c \in Callers,
           Unreachable(c) \/ Fail(c) \/ (\E p \in Providers : Exhausted(c, p)),
           InChain
    PROVE  TypeOK'
<1>1. loc[c].at \in DOMAIN Chain
    BY DEF Unreachable, Fail, Exhausted, Consuming, At, In, InChain
<1>2. \E reason \in Reasons : PassOver(c, reason)
    BY DEF Unreachable, Fail, Exhausted, Reasons
<1>3. loc' \in [Callers -> Call]
    BY <1>1, <1>2, PassOverType DEF TypeOK
<1> QED BY <1>3 DEF Unreachable, Fail, Exhausted, TypeOK

LEMMA TypeSpend ==
    ASSUME TypeOK, OwnObject, NEW c \in Callers, NEW p \in Providers, Spend(c, p)
    PROVE  TypeOK'
<1>0. loc[c].q \in Quotas
    BY DEF Spend, Consuming, In, OwnObject, TypeOK, Call
<1>1. loc' \in [Callers -> Call]
    BY GotoType DEF Spend, TypeOK, Phases
<1>2. used' \in [Quotas -> [Providers -> Nat]]
    <2>1. used[loc[c].q] \in [Providers -> Nat] /\ used[loc[c].q][p] + 1 \in Nat
        BY <1>0 DEF TypeOK
    <2>2. [used[loc[c].q] EXCEPT ![p] = @ + 1] \in [Providers -> Nat]
        BY <2>1
    <2>3. used' = [used EXCEPT ![loc[c].q] = [used[loc[c].q] EXCEPT ![p] = @ + 1]]
        BY Zenon DEF Spend
    <2> QED BY <1>0, <2>2, <2>3 DEF TypeOK
<1>3. qlock' \in [Quotas -> Callers \cup {None}]
    BY DEF Spend, TypeOK
<1> QED BY <1>1, <1>2, <1>3 DEF Spend, TypeOK

LEMMA TypeWrite ==
    ASSUME TypeOK, OwnObject, NEW c \in Callers, NEW p \in Providers, Write(c, p)
    PROVE  TypeOK'
<1>1. loc' \in [Callers -> Call]
    BY GotoType DEF Write, TypeOK, Phases
<1>2. loc[c].q \in Quotas
    BY DEF Write, In, OwnObject, TypeOK, Call
<1>3. used[loc[c].q][p] \in Nat
    BY <1>2 DEF TypeOK
<1>4. stored' \in [Providers -> Nat] /\ granted' \in [Providers -> Nat]
    BY <1>3 DEF Write, TypeOK
<1>5. qlock' \in [Quotas -> Callers \cup {None}]
    BY DEF Write, TypeOK
<1>6. late' \in [Callers -> SUBSET Providers]
    BY DEF Write, TypeOK
<1> QED BY <1>1, <1>4, <1>5, <1>6 DEF Write, TypeOK

LEMMA TypeEnd ==
    ASSUME TypeOK, NEW c \in Callers, (\E p \in Providers : WriteFails(c, p)) \/ Answer(c) \/ NoProvider(c)
    PROVE  TypeOK'
<1>1. loc' \in [Callers -> Call]
    BY EndType DEF WriteFails, Answer, NoProvider, TypeOK
<1>2. qlock' \in [Quotas -> Callers \cup {None}] /\ forfeit' \in [Providers -> Nat]
    <2>1. CASE Answer(c) \/ NoProvider(c)
        BY <2>1 DEF Answer, NoProvider, TypeOK
    <2>2. ASSUME NEW p \in Providers, WriteFails(c, p)
          PROVE  qlock' \in [Quotas -> Callers \cup {None}] /\ forfeit' \in [Providers -> Nat]
        <3>1. qlock' = [qlock EXCEPT ![loc[c].q] = None]
            BY <2>2 DEF WriteFails
        <3>2. forfeit' = [forfeit EXCEPT ![p] = @ + 1] /\ forfeit[p] + 1 \in Nat
            BY <2>2 DEF WriteFails, TypeOK
        <3>3. qlock' \in [Quotas -> Callers \cup {None}]
            BY <3>1 DEF TypeOK
        <3>4. forfeit' \in [Providers -> Nat]
            BY <3>2 DEF TypeOK
        <3> QED BY <3>3, <3>4
    <2> QED BY <2>1, <2>2
<1> QED BY <1>1, <1>2 DEF WriteFails, Answer, NoProvider, TypeOK

LEMMA TypeMalformed ==
    ASSUME TypeOK, NEW c \in Callers, Malformed(c) PROVE TypeOK'
<1>1. CASE loc[c].tries < Retries
    <2> DEFINE new == [loc[c] EXCEPT !.pc = "check", !.tries = @ + 1]
    <2>1. loc[c].tries + 1 \in 0..Retries
        BY <1>1, BoundsAssumption DEF TypeOK, Call
    <2>2. new \in Call
        <3>1. loc[c] \in Call /\ "check" \in Phases
            BY DEF TypeOK, Phases
        <3> QED BY <2>1, <3>1 DEF Call
    <2>3. loc' = [loc EXCEPT ![c] = new]
        BY <1>1, Zenon DEF Malformed
    <2>4. loc' \in [Callers -> Call]
        BY <2>2, <2>3 DEF TypeOK
    <2> QED BY <2>4 DEF Malformed, TypeOK
<1>2. CASE ~(loc[c].tries < Retries)
    <2>1. loc' \in [Callers -> Call]
        BY <1>2, EndType DEF Malformed, TypeOK
    <2> QED BY <2>1 DEF Malformed, TypeOK
<1> QED BY <1>1, <1>2

LEMMA TypeEnvironment ==
    ASSUME TypeOK, Environment PROVE TypeOK'
<1>1. Idle \in Call
    BY FreshType DEF Idle, Call, Kinds, Phases
<1>2. CASE SharedBegin \/ SharedCommit \/ SharedFail \/ Engage
    BY <1>2 DEF TypeOK, SharedBegin, SharedCommit, SharedFail, Engage
<1>3. CASE Release
    <2>1. late' \in [Callers -> SUBSET Providers]
        BY <1>3 DEF Release
    <2> QED BY <1>3, <2>1 DEF TypeOK, Release
<1>4. CASE Crash
    <2>1. late' \in [Callers -> SUBSET Providers]
        BY <1>4 DEF Crash
    <2>2. loc' \in [Callers -> Call]
        BY <1>1, <1>4 DEF Crash
    <2>3. used' \in [Quotas -> [Providers -> Nat]]
        BY <1>4 DEF Crash
    <2> QED BY <1>4, <2>1, <2>2, <2>3 DEF TypeOK, Crash
<1> QED BY <1>2, <1>3, <1>4 DEF Environment

LEMMA TypeStep ==
    ASSUME Base, [Next]_vars PROVE TypeOK'
<1>1. ASSUME NEW c \in Callers, Start(c) \/ Step(c) PROVE TypeOK'
    BY <1>1, TypeStart, TypeGetChain, TypeBuildWire, TypeCheck, TypePassOver, TypeSpend,
       TypeWrite, TypeEnd, TypeMalformed DEF Step, Base
<1>2. CASE Environment
    BY <1>2, TypeEnvironment DEF Base
<1>3. CASE UNCHANGED vars
    BY <1>3 DEF Base, TypeOK, vars
<1> QED BY <1>1, <1>2, <1>3 DEF Next

-----------------------------------------------------------------------------
(* A step of one caller moves no other.                                    *)

LEMMA Elsewhere ==
    ASSUME TypeOK, NEW c \in Callers, Start(c) \/ Step(c), NEW d \in Callers, d # c
    PROVE  loc'[d] = loc[d]
<1> USE DEF TypeOK
<1>1. CASE Start(c)
    BY <1>1 DEF Start
<1>2. CASE GetChain(c)
    BY <1>2 DEF GetChain
<1>3. CASE BuildQuota(c) \/ WireChain(c)
    BY <1>3 DEF BuildQuota, WireChain, Goto
<1>4. CASE Check(c)
    BY <1>4, EndEffect DEF Check
<1>5. CASE Unreachable(c) \/ Fail(c) \/ \E p \in Providers : Exhausted(c, p)
    BY <1>5 DEF Unreachable, Fail, Exhausted, PassOver
<1>6. CASE Answer(c) \/ NoProvider(c) \/ (\E p \in Providers : WriteFails(c, p))
    BY <1>6, EndEffect DEF Answer, NoProvider, WriteFails
<1>7. CASE Malformed(c)
    BY <1>7, EndEffect DEF Malformed
<1>8. CASE \E p \in Providers : Spend(c, p) \/ Write(c, p)
    BY <1>8 DEF Spend, Write, Goto
<1> QED BY <1>1, <1>2, <1>3, <1>4, <1>5, <1>6, <1>7, <1>8 DEF Step

-----------------------------------------------------------------------------
(* The object of a caller.                                                 *)

\* A call that has its chain stays with its object, or lets go of it.
Keeps(c) ==
    /\ UNCHANGED <<quota, llm>> /\ loc[c].pc \in {"check", "try", "write", "ask"}
    /\ \/ loc'[c].pc \in {"check", "try", "write", "ask"} /\ loc'[c].q = loc[c].q
       \/ loc'[c].pc = "idle" /\ loc'[c].q = None

LEMMA KeepsObject ==
    ASSUME TypeOK, NEW c \in Callers, Step(c),
           ~GetChain(c), ~BuildQuota(c), ~WireChain(c)
    PROVE  Keeps(c)
<1>0. loc[c] \in Call /\ loc \in [Callers -> Call]
    BY DEF TypeOK
<1>1. ASSUME Check(c) PROVE Keeps(c)
    <2>1. CASE engaged
        BY <1>0, <1>1, <2>1, EndEffect DEF Check, In, Call, Keeps
    <2>2. CASE ~engaged
        <3> DEFINE new == [loc[c] EXCEPT !.pc = "try", !.at = 1, !.why = <<>>]
        <3>1. new.pc = "try" /\ new.q = loc[c].q
            BY <1>0 DEF Call
        <3>2. loc' = [loc EXCEPT ![c] = new]
            BY <1>1, <2>2, Zenon DEF Check
        <3>3. loc'[c] = new
            BY <1>0, <3>2
        <3> QED BY <1>1, <3>1, <3>3 DEF Check, In, Keeps
    <2> QED BY <2>1, <2>2
<1>2. ASSUME Unreachable(c) \/ Fail(c) \/ (\E p \in Providers : Exhausted(c, p))
      PROVE  Keeps(c)
    <2>1. \E reason \in Reasons : PassOver(c, reason)
        BY <1>2 DEF Unreachable, Fail, Exhausted, Reasons
    <2>2. loc'[c].pc = "try" /\ loc'[c].q = loc[c].q
        BY <1>0, <2>1, PassOverEffect
    <2>3. UNCHANGED <<quota, llm>> /\ loc[c].pc \in {"try", "ask"}
        BY <1>2 DEF Unreachable, Fail, Exhausted, Consuming, In
    <2> QED BY <2>2, <2>3 DEF Keeps
<1>3. ASSUME Answer(c) \/ NoProvider(c) \/ (\E p \in Providers : WriteFails(c, p))
      PROVE  Keeps(c)
    BY <1>0, <1>3, EndEffect DEF Answer, NoProvider, WriteFails, In, Call, Keeps
<1>4. ASSUME Malformed(c) PROVE Keeps(c)
    BY <1>0, <1>4, EndEffect DEF Malformed, In, Call, Keeps
<1>5. ASSUME NEW p \in Providers, Spend(c, p) \/ Write(c, p) PROVE Keeps(c)
    <2>1. loc'[c].pc \in {"write", "ask"} /\ loc'[c].q = loc[c].q
        BY <1>0, <1>5 DEF Spend, Write, Goto, Call
    <2> QED BY <1>5, <2>1 DEF Spend, Consuming, Write, In, Keeps
<1> QED BY <1>1, <1>2, <1>3, <1>4, <1>5 DEF Step

\* An object that is being built is nobody else's.
LEMMA OwnStep ==
    ASSUME TypeOK, OwnObject, [Next]_vars
    PROVE  OwnObject'
<1>1. ASSUME NEW c \in Callers, Start(c) \/ Step(c) PROVE OwnObject'
    <2>0. /\ loc[c] \in Call /\ loc \in [Callers -> Call]
          /\ \A d \in Callers \ {c} : loc'[d] = loc[d]
        BY <1>1, Elsewhere DEF TypeOK
    <2>1. CASE Start(c)
        <3>1. loc'[c].pc = "chain" /\ loc'[c].q = None
            BY <2>0, <2>1 DEF Start, Fresh
        <3> QED BY <2>0, <2>1, <3>1 DEF Start, OwnObject, In
    <2>2. CASE GetChain(c)
        <3>1. UNCHANGED <<quota, llm>>
            BY <2>2 DEF GetChain
        <3>2. CASE llm # None \/ quota # None
            <4>1. /\ loc'[c].pc \in {"check", "wire"} /\ loc'[c].q # None
                  /\ loc'[c].q \in {quota, llm}
                BY <2>0, <2>2, <3>2 DEF GetChain, Call
            <4> QED BY <2>0, <3>1, <4>1 DEF OwnObject, In
        <3>3. CASE llm = None /\ quota = None
            <4>1. PICK q \in Quotas : Unused(q) /\ loc' = [loc EXCEPT ![c].pc = "build", ![c].q = q]
                BY <2>2, <3>3 DEF GetChain
            <4>2. loc'[c].pc = "build" /\ loc'[c].q = q /\ q # None
                BY <2>0, <4>1, NoneAssumption DEF Call
            <4> QED BY <2>0, <3>1, <4>1, <4>2 DEF OwnObject, Unused, In
        <3> QED BY <3>2, <3>3
    <2>3. CASE BuildQuota(c)
        <3>1. /\ loc[c].pc = "build" /\ loc'[c].pc = "wire" /\ loc'[c].q = loc[c].q
              /\ quota' \in {quota, loc[c].q} /\ llm' = llm
            BY <2>0, <2>3 DEF BuildQuota, Goto, In, Call
        <3> QED BY <2>0, <3>1 DEF OwnObject, In
    <2>4. CASE WireChain(c)
        <3>1. /\ loc[c].pc = "wire" /\ loc'[c].pc = "check" /\ loc'[c].q = loc[c].q
              /\ llm' \in {llm, loc[c].q} /\ quota' = quota
            BY <2>0, <2>4 DEF WireChain, Goto, In, Call
        <3> QED BY <2>0, <3>1 DEF OwnObject, In
    <2>5. CASE Keeps(c)
        BY <2>0, <2>5 DEF Keeps, OwnObject, In
    <2> QED BY <1>1, <2>1, <2>2, <2>3, <2>4, <2>5, KeepsObject
<1>2. CASE Crash
    BY <1>2 DEF Crash, Idle, Fresh, OwnObject, In
<1>3. CASE UNCHANGED <<quota, llm, loc>>
    BY <1>3 DEF OwnObject, In
<1> QED BY <1>1, <1>2, <1>3
        DEF Next, Environment, SharedBegin, SharedCommit, SharedFail, Engage, Release,
            vars

-----------------------------------------------------------------------------
(* The lock of an object, and its budget.                                  *)

\* A step of one caller that neither counts nor writes.
LEMMA LockQuiet ==
    ASSUME LockedUntilWritten, NEW c \in Callers, UNCHANGED <<used, stored, qlock>>,
           \A d \in Callers \ {c} : loc'[d] = loc[d],
           loc[c].pc # "write", loc'[c].pc # "write"
    PROVE  LockedUntilWritten'
BY DEF LockedUntilWritten, In

LEMMA LockBuild ==
    ASSUME TypeOK, LockedUntilWritten, NEW c \in Callers, BuildQuota(c)
    PROVE  LockedUntilWritten'
<1>1. /\ \A d \in Callers \ {c} : loc'[d] = loc[d]
      /\ loc[c].pc = "build" /\ loc'[c].pc = "wire"
      /\ UNCHANGED <<stored, qlock>>
    BY DEF BuildQuota, Goto, In, TypeOK, Call
<1>2. \A q \in Quotas : used'[q] = IF q = loc[c].q THEN stored ELSE used[q]
    BY DEF BuildQuota, TypeOK
<1> QED BY <1>1, <1>2 DEF LockedUntilWritten, In

LEMMA LockSpend ==
    ASSUME TypeOK, OwnObject, LockedUntilWritten, NEW c \in Callers, NEW p \in Providers,
           Spend(c, p)
    PROVE  LockedUntilWritten'
<1> DEFINE mine == loc[c].q
<1>1. mine \in Quotas /\ qlock[mine] = None /\ loc[c].pc = "try"
    BY DEF Spend, Consuming, OwnObject, TypeOK, Call, In
<1>2. \A d \in Callers \ {c} : loc'[d] = loc[d]
    BY DEF Spend, Goto, TypeOK
<1>3. loc'[c].pc = "write" /\ loc'[c].q = mine
    BY DEF Spend, Goto, TypeOK, Call
<1>4. \A q \in Quotas : qlock'[q] = IF q = mine THEN c ELSE qlock[q]
    BY DEF Spend, TypeOK
<1>5. \A q \in Quotas, r \in Providers :
          used'[q][r] = IF q = mine /\ r = p THEN used[q][r] + 1 ELSE used[q][r]
    BY <1>1 DEF Spend, TypeOK
<1>6. used[mine][p] \in Nat /\ Limit[p] \in Nat /\ used[mine][p] < Limit[p]
    BY <1>1, LimitAssumption DEF Spend, TypeOK
<1>7. \A q \in Quotas, r \in Providers : used'[q][r] <= Limit[r]
    BY <1>5, <1>6 DEF LockedUntilWritten
<1>8. ASSUME NEW d \in Callers, NEW q \in Quotas
      PROVE  qlock'[q] = d <=> loc'[d].pc = "write" /\ loc'[d].q = q
    <2>1. qlock[q] = d <=> loc[d].pc = "write" /\ loc[d].q = q
        BY DEF LockedUntilWritten, In
    <2>2. CASE d = c
        BY <1>1, <1>3, <1>4, <2>1, <2>2
    <2>3. CASE d # c
        <3>1. loc'[d] = loc[d]
            BY <1>2, <2>3
        <3>2. CASE q = mine
            <4>1. qlock[q] # d
                BY <1>1, <3>2, NoneAssumption
            <4> QED BY <1>4, <2>1, <2>3, <3>1, <3>2, <4>1
        <3>3. CASE q # mine
            BY <1>4, <2>1, <3>1, <3>3
        <3> QED BY <3>2, <3>3
    <2> QED BY <2>2, <2>3
<1>11. stored' = stored
    BY DEF Spend
<1> QED BY <1>7, <1>8, <1>11 DEF LockedUntilWritten, In

\* The lock is given back, with the count on disk or with an error.
LEMMA LockWrite ==
    ASSUME TypeOK, OwnObject, LockedUntilWritten, NEW c \in Callers, NEW p \in Providers,
           Write(c, p) \/ WriteFails(c, p)
    PROVE  LockedUntilWritten'
<1> DEFINE mine == loc[c].q
<1>1. loc[c].pc = "write" /\ mine \in Quotas /\ qlock[mine] = c
    BY DEF Write, WriteFails, LockedUntilWritten, OwnObject, TypeOK, Call, In
<1>2. \A d \in Callers \ {c} : loc'[d] = loc[d]
    BY Elsewhere DEF Step
<1>3. loc'[c].pc # "write"
    BY EndEffect DEF Write, WriteFails, Goto, TypeOK, Call
<1>4. \A q \in Quotas : qlock'[q] = IF q = mine THEN None ELSE qlock[q]
    BY DEF Write, WriteFails, TypeOK
<1>5. used' = used
    BY DEF Write, WriteFails
<1>6. \A r \in Providers : stored'[r] <= Limit[r]
    <2>1. \A r \in Providers : stored'[r] = stored[r] \/ stored'[r] = used[mine][r]
        BY DEF Write, WriteFails, TypeOK
    <2> QED BY <1>1, <2>1 DEF LockedUntilWritten
<1>7. ASSUME NEW d \in Callers, NEW q \in Quotas
      PROVE  qlock'[q] = d <=> loc'[d].pc = "write" /\ loc'[d].q = q
    <2>1. qlock[q] = d <=> loc[d].pc = "write" /\ loc[d].q = q
        BY DEF LockedUntilWritten, In
    <2>2. CASE d = c
        BY <1>1, <1>3, <1>4, <2>1, <2>2, NoneAssumption
    <2>3. CASE d # c
        <3>1. loc'[d] = loc[d]
            BY <1>2, <2>3
        <3>2. CASE q = mine
            BY <1>1, <1>4, <2>1, <2>3, <3>1, <3>2, NoneAssumption
        <3>3. CASE q # mine
            BY <1>4, <2>1, <3>1, <3>3
        <3> QED BY <3>2, <3>3
    <2> QED BY <2>2, <2>3
<1> QED BY <1>5, <1>6, <1>7 DEF LockedUntilWritten, In

LEMMA LockStep ==
    ASSUME Base, [Next]_vars
    PROVE  LockedUntilWritten'
<1> USE DEF Base
<1>1. ASSUME NEW c \in Callers, Start(c) \/ Step(c) PROVE LockedUntilWritten'
    <2> DEFINE quiet == /\ loc[c].pc # "write" /\ loc'[c].pc # "write"
                        /\ UNCHANGED <<used, stored, qlock>>
    <2>0. /\ loc[c] \in Call /\ loc \in [Callers -> Call]
          /\ \A d \in Callers \ {c} : loc'[d] = loc[d]
        BY <1>1, Elsewhere DEF TypeOK
    <2>1. ASSUME Start(c) PROVE quiet
        BY <2>0, <2>1 DEF Start, Fresh, Call, In
    <2>2. ASSUME GetChain(c) PROVE quiet
        BY <2>0, <2>2 DEF GetChain, Call, In
    <2>3. ASSUME WireChain(c) PROVE quiet
        BY <2>0, <2>3 DEF WireChain, Goto, Call, In
    <2>4. ASSUME Check(c) PROVE quiet
        BY <2>0, <2>4, EndEffect DEF Check, Call, In
    <2>5. ASSUME Unreachable(c) \/ Fail(c) \/ (\E p \in Providers : Exhausted(c, p)) PROVE quiet
        BY <2>0, <2>5 DEF Unreachable, Fail, Exhausted, Consuming, PassOver, Call, In
    <2>6. ASSUME Answer(c) \/ NoProvider(c) PROVE quiet
        BY <2>0, <2>6, EndEffect DEF Answer, NoProvider, Call, In
    <2>7. ASSUME Malformed(c) PROVE quiet
        BY <2>0, <2>7, EndEffect DEF Malformed, Call, In
    <2>8. CASE BuildQuota(c)
        BY <2>8, LockBuild
    <2>9. CASE \E p \in Providers : Spend(c, p)
        BY <2>9, LockSpend
    <2>10. CASE \E p \in Providers : Write(c, p) \/ WriteFails(c, p)
        BY <2>10, LockWrite
    <2>11. CASE quiet
        BY <2>0, <2>11, LockQuiet
    <2> HIDE DEF quiet
    <2> QED BY <1>1, <2>1, <2>2, <2>3, <2>4, <2>5, <2>6, <2>7, <2>8, <2>9, <2>10, <2>11 DEF Step
<1>2. CASE Crash
    <2>1. /\ \A q \in Quotas, r \in Providers : used'[q][r] = 0
          /\ \A d \in Callers : loc'[d].pc = "idle"
          /\ \A q \in Quotas : qlock'[q] = None
          /\ stored' = stored
        BY <1>2 DEF Crash, Idle, Fresh
    <2> QED BY <2>1, LimitAssumption, NoneAssumption DEF LockedUntilWritten, In
<1>3. CASE UNCHANGED <<used, stored, qlock, loc>>
    BY <1>3 DEF LockedUntilWritten, In
<1> QED BY <1>1, <1>2, <1>3
        DEF Next, Environment, SharedBegin, SharedCommit, SharedFail, Engage, Release,
            vars

-----------------------------------------------------------------------------
(* The callers share the object that is cached.                            *)

\* A step of one caller that stays with its object, or lets go of it.
LEMMA SameObject ==
    ASSUME TypeOK, OneObject, NEW c \in Callers, UNCHANGED <<quota, llm>>,
           \A d \in Callers \ {c} : loc'[d] = loc[d],
           loc[c].pc \in {"check", "try", "write", "ask"},
           \/ loc'[c].pc \in {"check", "try", "write", "ask"} /\ loc'[c].q = loc[c].q
           \/ loc'[c].pc = "idle" /\ loc'[c].q = None
    PROVE  OneObject'
BY DEF OneObject, In

LEMMA ObjectGetChain ==
    ASSUME TypeOK, OneObject, NEW c \in Callers, GetChain(c)
    PROVE  OneObject'
<1>1. /\ \A d \in Callers \ {c} : loc'[d] = loc[d]
      /\ loc[c].pc = "chain" /\ UNCHANGED <<quota, llm>>
    BY DEF GetChain, TypeOK, Call, In
<1>2. CASE llm # None \/ quota # None
    <2>1. loc'[c].pc \in {"check", "wire"} /\ loc'[c].q = quota /\ quota # None
        BY <1>2 DEF GetChain, TypeOK, Call, OneObject
    <2> QED BY <1>1, <2>1 DEF OneObject, In
<1>3. CASE llm = None /\ quota = None
    <2>1. PICK q \in Quotas : Unused(q) /\ loc' = [loc EXCEPT ![c].pc = "build", ![c].q = q]
        BY <1>3 DEF GetChain
    <2>2. loc'[c].pc = "build"
        BY <2>1 DEF TypeOK, Call
    <2> QED BY <1>1, <2>2 DEF OneObject
<1> QED BY <1>2, <1>3

LEMMA ObjectStep ==
    ASSUME TypeOK, OwnObject, OneObject, ~raced', [Next]_vars
    PROVE  OneObject'
<1>1. ASSUME NEW c \in Callers, Start(c) \/ Step(c) PROVE OneObject'
    <2>1. CASE Start(c)
        BY <2>1 DEF Start, Fresh, OneObject, TypeOK, Call, In
    <2>2. CASE GetChain(c)
        BY <2>2, ObjectGetChain
    <2>3. CASE BuildQuota(c)
        <3>1. quota = None /\ quota' = loc[c].q /\ loc[c].q \in Quotas \cup {None}
            BY <2>3 DEF BuildQuota, TypeOK, Call
        <3> QED BY <2>3, <3>1 DEF BuildQuota, Goto, OneObject, OwnObject, TypeOK, Call, In
    <2>4. CASE WireChain(c)
        BY <2>4 DEF WireChain, Goto, OneObject, TypeOK, Call, In
    <2>5. CASE Keeps(c)
        BY <1>1, <2>5, SameObject, Elsewhere DEF Keeps
    <2> QED BY <1>1, <2>1, <2>2, <2>3, <2>4, <2>5, KeepsObject
<1>2. CASE Crash
    BY <1>2 DEF Crash, Idle, Fresh, OneObject, In
<1>3. CASE UNCHANGED <<quota, llm, loc>>
    BY <1>3 DEF OneObject, In
<1> QED BY <1>1, <1>2, <1>3
        DEF Next, Environment, SharedBegin, SharedCommit, SharedFail, Engage, Release,
            vars

LEMMA InChainStep ==
    ASSUME TypeOK, InChain, [Next]_vars
    PROVE  InChain'
<1>1. ASSUME NEW c \in Callers, Start(c) \/ Step(c) PROVE InChain'
    <2> DEFINE ok == loc'[c].pc \in {"write", "ask"} => loc'[c].at \in DOMAIN Chain
    <2>0. loc[c] \in Call
        BY DEF TypeOK
    <2>1. ASSUME Start(c) PROVE ok
        BY <2>1 DEF Start, Fresh, TypeOK
    <2>2. ASSUME GetChain(c) PROVE ok
        BY <2>0, <2>2 DEF GetChain, TypeOK, Call
    <2>3. ASSUME BuildQuota(c) \/ WireChain(c) PROVE ok
        BY <2>0, <2>3 DEF BuildQuota, WireChain, Goto, TypeOK, Call
    <2>4. ASSUME Check(c) PROVE ok
        BY <2>0, <2>4, EndEffect DEF Check, TypeOK, Call
    <2>5. ASSUME Unreachable(c) \/ Fail(c) \/ (\E p \in Providers : Exhausted(c, p)) PROVE ok
        <3>1. \E reason \in Reasons : PassOver(c, reason)
            BY <2>5 DEF Unreachable, Fail, Exhausted, Reasons
        <3> QED BY <3>1, PassOverEffect DEF TypeOK
    <2>6. ASSUME Answer(c) \/ NoProvider(c) \/ (\E p \in Providers : WriteFails(c, p)) PROVE ok
        BY <2>0, <2>6, EndEffect DEF Answer, NoProvider, WriteFails, TypeOK, Call
    <2>7. ASSUME Malformed(c) PROVE ok
        BY <2>0, <2>7, EndEffect DEF Malformed, TypeOK, Call
    <2>8. ASSUME NEW p \in Providers, Spend(c, p) \/ Write(c, p) PROVE ok
        <3>1. loc[c].at \in DOMAIN Chain
            BY <2>8 DEF Spend, Consuming, Write, At
        <3>2. loc'[c].at = loc[c].at
            BY <2>0, <2>8 DEF Spend, Write, Goto, TypeOK, Call
        <3> QED BY <3>1, <3>2
    <2>9. ok
        BY <1>1, <2>1, <2>2, <2>3, <2>4, <2>5, <2>6, <2>7, <2>8 DEF Step
    <2> QED BY <1>1, <2>9, Elsewhere DEF InChain
<1>3. CASE Crash
    BY <1>3 DEF Crash, Idle, Fresh, InChain
<1>4. CASE UNCHANGED loc
    BY <1>4 DEF InChain
<1> QED BY <1>1, <1>3, <1>4
        DEF Next, Environment, SharedBegin, SharedCommit, SharedFail, Engage, Release,
            vars

-----------------------------------------------------------------------------
(* The counters in memory, on disk, and of the requests made.              *)

Within ==
    /\ \A p \in Providers : granted[p] <= stored[p] /\ stored[p] <= Limit[p]
    /\ quota # None =>
         \A p \in Providers : stored[p] <= used[quota][p] /\ used[quota][p] <= Limit[p]
Counts == SpenderHoldsLock /\ Within

\* A step that leaves the counters alone and makes nobody a spender.
LEMMA CountsQuiet ==
    ASSUME TypeOK, Counts, UNCHANGED <<quota, used, stored, qlock, granted>>,
           \A c \in Callers : loc'[c].pc = "write" => loc'[c] = loc[c]
    PROVE  Counts'
BY DEF Counts, SpenderHoldsLock, Within, In

LEMMA CountsBuild ==
    ASSUME TypeOK, OneObject, Counts, NEW c \in Callers, BuildQuota(c), ~raced'
    PROVE  Counts'
<1>1. quota = None /\ loc[c].q \in Quotas \cup {None} /\ quota' = loc[c].q
    BY DEF BuildQuota, TypeOK, Call
<1>2. \A d \in Callers : ~In(d, "write")
    BY <1>1 DEF OneObject, In
<1>3. \A d \in Callers : loc'[d].pc # "write"
    BY <1>2 DEF BuildQuota, Goto, TypeOK, Call, In
<1>4. quota' # None => used'[quota'] = stored
    BY <1>1 DEF BuildQuota, TypeOK
<1>5. SpenderHoldsLock'
    BY <1>3 DEF SpenderHoldsLock, In
<1>6. Within'
    BY <1>4 DEF BuildQuota, Counts, Within, TypeOK
<1> QED BY <1>5, <1>6 DEF Counts

LEMMA CountsSpend ==
    ASSUME TypeOK, OneObject, InChain, Counts, NEW c \in Callers, NEW p \in Providers, Spend(c, p)
    PROVE  Counts'
<1>1. loc[c].q = quota /\ quota \in Quotas /\ qlock[quota] = None
    BY DEF Spend, Consuming, OneObject, TypeOK, Call, In
<1>2. used'[quota] = [used[quota] EXCEPT ![p] = @ + 1] /\ used[quota] \in [Providers -> Nat]
    BY <1>1 DEF Spend, TypeOK
<1>3. \A d \in Callers \ {c} : loc'[d] = loc[d] /\ ~In(d, "write")
    BY <1>1, NoneAssumption DEF Spend, Goto, Counts, SpenderHoldsLock, OneObject, TypeOK, Call, In
<1>4. loc'[c].q = quota /\ loc'[c].at = loc[c].at /\ At(c, p)
    BY <1>1 DEF Spend, Consuming, Goto, TypeOK, Call
<1>5. qlock'[quota] = c
    BY <1>1 DEF Spend, TypeOK
<1>6. /\ stored \in [Providers -> Nat] /\ stored' = stored /\ quota' = quota
      /\ granted' = granted /\ Limit \in [Providers -> Nat]
    BY LimitAssumption DEF Spend, TypeOK
<1>7. /\ stored[p] <= used[quota][p] /\ used[quota][p] < Limit[p]
      /\ used[quota][p] \in Nat /\ stored[p] \in Nat
    BY <1>1, <1>2, NoneAssumption DEF Spend, Consuming, Counts, Within, TypeOK
<1>8. used'[quota][p] > stored'[p]
    BY <1>2, <1>6, <1>7
<1>9. SpenderHoldsLock'
    BY <1>3, <1>4, <1>5, <1>8 DEF SpenderHoldsLock, In, At
<1>10. Within'
    BY <1>1, <1>2, <1>6, <1>7 DEF Counts, Within
<1> QED BY <1>9, <1>10 DEF Counts

LEMMA CountsWrite ==
    ASSUME TypeOK, OneObject, Counts, NEW c \in Callers, NEW p \in Providers, Write(c, p)
    PROVE  Counts'
<1>1. loc[c].q = quota /\ quota \in Quotas /\ qlock[quota] = c
    BY DEF Write, Counts, SpenderHoldsLock, OneObject, TypeOK, Call, In
<1>2. \A d \in Callers : loc'[d].pc # "write"
    BY <1>1 DEF Write, Goto, Counts, SpenderHoldsLock, OneObject, TypeOK, Call, In
<1>3. stored' = [stored EXCEPT ![p] = used[quota][p]] /\ granted' = [granted EXCEPT ![p] = @ + 1]
    BY <1>1 DEF Write
<1>4. used[quota][p] > stored[p]
    BY <1>1 DEF Write, At, Counts, SpenderHoldsLock, In
<1>5. /\ quota' = quota /\ used' = used /\ used[quota] \in [Providers -> Nat]
      /\ stored \in [Providers -> Nat] /\ granted \in [Providers -> Nat]
      /\ Limit \in [Providers -> Nat]
    BY <1>1, LimitAssumption DEF Write, TypeOK
<1>6. \A r \in Providers : /\ granted[r] <= stored[r] /\ stored[r] <= Limit[r]
                           /\ stored[r] <= used[quota][r] /\ used[quota][r] <= Limit[r]
    BY <1>1, NoneAssumption DEF Counts, Within
<1>7. Within'
    BY <1>3, <1>4, <1>5, <1>6 DEF Within
<1>8. SpenderHoldsLock'
    BY <1>2 DEF SpenderHoldsLock, In
<1> QED BY <1>7, <1>8 DEF Counts

LEMMA CountsWriteFails ==
    ASSUME TypeOK, OneObject, Counts, NEW c \in Callers, NEW p \in Providers, WriteFails(c, p)
    PROVE  Counts'
<1>1. loc[c].q = quota /\ qlock[quota] = c
    BY DEF WriteFails, Counts, SpenderHoldsLock, OneObject, In
<1>2. \A d \in Callers : loc'[d].pc # "write"
    <2>1. loc'[c].pc = "idle" /\ \A d \in Callers \ {c} : loc'[d] = loc[d]
        BY EndEffect DEF WriteFails, TypeOK
    <2> QED BY <1>1, <2>1 DEF Counts, SpenderHoldsLock, OneObject, In
<1>3. SpenderHoldsLock'
    BY <1>2 DEF SpenderHoldsLock, In
<1> QED BY <1>3 DEF WriteFails, Counts, Within

LEMMA CountsStep ==
    ASSUME Base, OneObject, Counts, ~raced', [Next]_vars
    PROVE  Counts'
<1> USE DEF Base
<1>0. Counts
    OBVIOUS
<1>1. ASSUME NEW c \in Callers, \A d \in Callers \ {c} : loc'[d] = loc[d],
             loc'[c].pc # "write", UNCHANGED <<quota, used, stored, qlock, granted>>
      PROVE  Counts'
    BY <1>0, <1>1, CountsQuiet
<1>2. ASSUME NEW c \in Callers, Start(c) \/ Step(c) PROVE Counts'
    <2> DEFINE quiet == loc'[c].pc # "write" /\ UNCHANGED <<quota, used, stored, qlock, granted>>
    <2>0. loc[c] \in Call
        BY DEF TypeOK
    <2>1. ASSUME Start(c) PROVE quiet
        BY <2>0, <2>1 DEF Start, Fresh, TypeOK, Call
    <2>2. ASSUME GetChain(c) PROVE quiet
        BY <2>0, <2>2 DEF GetChain, TypeOK, Call
    <2>3. ASSUME WireChain(c) PROVE quiet
        BY <2>0, <2>3 DEF WireChain, Goto, TypeOK, Call
    <2>4. ASSUME Check(c) PROVE quiet
        BY <2>0, <2>4, EndEffect DEF Check, TypeOK, Call
    <2>5. ASSUME Unreachable(c) \/ Fail(c) \/ (\E p \in Providers : Exhausted(c, p)) PROVE quiet
        BY <2>0, <2>5 DEF Unreachable, Fail, Exhausted, PassOver, TypeOK, Call
    <2>6. ASSUME Answer(c) \/ NoProvider(c) PROVE quiet
        BY <2>0, <2>6, EndEffect DEF Answer, NoProvider, TypeOK, Call
    <2>7. ASSUME Malformed(c) PROVE quiet
        BY <2>0, <2>7, EndEffect DEF Malformed, TypeOK, Call
    <2>8. CASE BuildQuota(c)
        BY <2>8, <1>0, CountsBuild
    <2>9. CASE \E p \in Providers : WriteFails(c, p)
        BY <2>9, <1>0, CountsWriteFails
    <2>10. CASE \E p \in Providers : Spend(c, p) \/ Write(c, p)
        BY <2>10, <1>0, CountsSpend, CountsWrite
    <2>11. CASE quiet
        BY <1>1, <1>2, <2>11, Elsewhere
    <2> HIDE DEF quiet
    <2> QED BY <1>2, <2>1, <2>2, <2>3, <2>4, <2>5, <2>6, <2>7, <2>8, <2>9, <2>10, <2>11 DEF Step
<1>3. CASE Crash
    BY <1>3, <1>0 DEF Crash, Idle, Fresh, Counts, SpenderHoldsLock, Within, In
<1>4. CASE UNCHANGED <<quota, used, stored, qlock, granted, loc>>
    BY <1>4, <1>0, CountsQuiet
<1> QED BY <1>2, <1>3, <1>4
        DEF Next, Environment, SharedBegin, SharedCommit, SharedFail, Engage, Release,
            vars

-----------------------------------------------------------------------------
(* The theorems.                                                           *)

LEMMA BaseInit == Init => Base
<1> SUFFICES ASSUME Init PROVE Base
    OBVIOUS
<1>1. OwnObject /\ InChain
    BY DEF Init, OwnObject, InChain, Idle, Fresh, In
<1>2. LockedUntilWritten
    <2>1. /\ \A q \in Quotas, r \in Providers : used[q][r] = 0
          /\ \A d \in Callers : loc[d].pc = "idle"
          /\ \A q \in Quotas : qlock[q] = None
          /\ \A r \in Providers : stored[r] = 0
        BY DEF Init, Idle, Fresh
    <2> QED BY <2>1, LimitAssumption, NoneAssumption DEF LockedUntilWritten, In
<1> QED BY <1>1, <1>2, TypeInit DEF Base

LEMMA BaseStep == ASSUME Base, [Next]_vars PROVE Base'
BY TypeStep, OwnStep, InChainStep, LockStep DEF Base

LEMMA InvInit == Init => Inv
<1> SUFFICES ASSUME Init PROVE Inv
    OBVIOUS
<1>1. OneObject /\ SpenderHoldsLock
    BY DEF Init, OneObject, SpenderHoldsLock, Idle, Fresh, In
<1>2. BudgetHolds
    BY LimitAssumption DEF Init, BudgetHolds
<1> QED BY <1>1, <1>2, BaseInit DEF Inv

\* What has overlapped has overlapped.
LEMMA RacedStays == ASSUME raced, [Next]_vars PROVE raced'
<1>1. ASSUME NEW c \in Callers, Start(c) \/ GetChain(c) \/ BuildQuota(c) \/ WireChain(c) \/ Check(c)
      PROVE  raced'
    BY <1>1 DEF Start, GetChain, BuildQuota, WireChain, Check
<1>2. ASSUME NEW c \in Callers,
             Unreachable(c) \/ Fail(c) \/ Answer(c) \/ Malformed(c) \/ NoProvider(c)
      PROVE  raced'
    BY <1>2 DEF Unreachable, Fail, Answer, Malformed, NoProvider
<1>3. ASSUME NEW c \in Callers, NEW p \in Providers,
             Exhausted(c, p) \/ Spend(c, p) \/ Write(c, p) \/ WriteFails(c, p)
      PROVE  raced'
    BY <1>3 DEF Exhausted, Spend, Write, WriteFails
<1>4. CASE Environment \/ UNCHANGED vars
    BY <1>4 DEF Environment, SharedBegin, SharedCommit, SharedFail, Engage, Release, Crash, vars
<1>5. ASSUME NEW c \in Callers, Start(c) \/ Step(c) PROVE raced'
    BY <1>1, <1>2, <1>3, <1>5 DEF Step
<1> QED BY <1>4, <1>5 DEF Next

LEMMA InvStep == ASSUME Inv, [Next]_vars PROVE Inv'
<1>1. Base'
    BY BaseStep DEF Inv
<1>2. CASE raced'
    BY <1>1, <1>2 DEF Inv, BudgetHolds
<1>3. CASE ~raced'
    <2>1. OneObject /\ SpenderHoldsLock /\ Within
        BY <1>3, RacedStays DEF Inv, BudgetHolds, Within
    <2>2. OneObject'
        BY <1>3, <2>1, ObjectStep DEF Inv, Base
    <2>3. SpenderHoldsLock' /\ Within'
        BY <1>3, <2>1, CountsStep DEF Inv, Counts
    <2> QED BY <1>1, <2>2, <2>3 DEF Inv, BudgetHolds, Within
<1> QED BY <1>2, <1>3

\* However many Quota objects there are, whoever is between counting a request and
\* writing it holds its object's lock, every lock that is held is given back by the step
\* that follows, and no object counts past the limit (Quota.consume).
THEOREM EveryObjectInBudget == Spec => []LockedUntilWritten
<1>1. Base => LockedUntilWritten
    BY DEF Base
<1> QED BY <1>1, BaseInit, BaseStep, PTL DEF Spec

\* Whatever crashes, fails or is retried, every caller and every table of the chain
\* and its quota has its type (llm.LLMChain, Quota).
THEOREM TypeCorrect == Spec => []TypeOK
<1>1. Base => TypeOK
    BY DEF Base
<1> QED BY <1>1, BaseInit, BaseStep, PTL DEF Spec

\* Until two first uses of the chain have overlapped and made a Quota object each, no
\* provider is ever asked more often than its budget allows, whatever crashes, fails or
\* is retried (Quota.consume).
THEOREM BudgetSafety == Spec => []BudgetHolds
<1>1. Inv => BudgetHolds
    BY DEF Inv
<1> QED BY <1>1, InvInit, InvStep, PTL DEF Spec

-----------------------------------------------------------------------------
(* What was counted was asked for, or forfeited.                           *)

Asked(p) == granted[p] + forfeit[p]
Accounted ==
    /\ \A p \in Providers : stored[p] <= Asked(p)
    /\ \A q \in Quotas : qlock[q] = None => \A p \in Providers : used[q][p] <= Asked(p)
    /\ \A c \in Callers : In(c, "write") =>
         \A p \in Providers : used[loc[c].q][p] <= Asked(p) + (IF At(c, p) THEN 1 ELSE 0)

\* The reasons noted are those of the providers behind, and the stub is passed
\* over for one reason only.
WhyOK(c) ==
    /\ Len(loc[c].why) <= Len(Chain)
    /\ \A i \in DOMAIN loc[c].why : loc[c].why[i] = "exhausted" => Spent(Chain[i])
    /\ loc[c].pc \in {"try", "write", "ask"} =>
          /\ Len(loc[c].why) = loc[c].at - 1
          /\ loc[c].at > Len(Chain) => Spent(Stub)
    /\ loc[c].nobody => Spent(Stub)
WhyInv == \A c \in Callers : WhyOK(c)

LEMMA AccountedSpend ==
    ASSUME Base, Accounted, NEW c \in Callers, NEW p \in Providers, Spend(c, p)
    PROVE  Accounted'
<1> USE DEF Base
<1> DEFINE mine == loc[c].q
<1>1. mine \in Quotas /\ qlock[mine] = None
    BY DEF Spend, Consuming, OwnObject, TypeOK, Call, In
<1>2. \A q \in Quotas, r \in Providers :
          used'[q][r] = IF q = mine /\ r = p THEN used[q][r] + 1 ELSE used[q][r]
    BY <1>1 DEF Spend, TypeOK
<1>3. \A d \in Callers \ {c} : loc'[d] = loc[d]
    BY DEF Spend, Goto, TypeOK
<1>4. loc'[c].q = mine /\ At(c, p)' /\ \A r \in Providers : At(c, r)' => r = p
    BY DEF Spend, Consuming, Goto, At, TypeOK, Call
<1>5. \A q \in Quotas : qlock'[q] = IF q = mine THEN c ELSE qlock[q]
    BY DEF Spend, TypeOK
<1>6. \A r \in Providers : Asked(r)' = Asked(r) /\ Asked(r) \in Nat
    BY DEF Spend, Asked, TypeOK
<1>7. \A r \in Providers : used[mine][r] <= Asked(r) /\ used[mine][r] \in Nat
    BY <1>1 DEF Accounted, TypeOK
<1>8. \A r \in Providers : used'[mine][r] <= Asked(r)' + (IF At(c, r)' THEN 1 ELSE 0)
    BY <1>1, <1>2, <1>4, <1>6, <1>7
<1>9. \A q \in Quotas : qlock'[q] = None => \A r \in Providers : used'[q][r] <= Asked(r)'
    BY <1>2, <1>5, <1>6, NoneAssumption DEF Accounted
<1>10. ASSUME NEW d \in Callers \ {c}, In(d, "write")', NEW r \in Providers
       PROVE  used'[loc'[d].q][r] <= Asked(r)' + (IF At(d, r)' THEN 1 ELSE 0)
    <2>1. In(d, "write") /\ loc[d].q \in Quotas /\ qlock[loc[d].q] = d
        BY <1>3, <1>10 DEF LockedUntilWritten, OwnObject, In, TypeOK, Call
    <2>2. loc[d].q # mine
        BY <1>1, <2>1, NoneAssumption
    <2>3. used[loc[d].q][r] <= Asked(r) + (IF At(d, r) THEN 1 ELSE 0)
        BY <2>1 DEF Accounted
    <2>4. At(d, r)' = At(d, r)
        BY <1>3 DEF At
    <2> QED BY <1>2, <1>3, <1>6, <2>1, <2>2, <2>3, <2>4
<1>11. \A d \in Callers : In(d, "write")' => \A r \in Providers :
          used'[loc'[d].q][r] <= Asked(r)' + (IF At(d, r)' THEN 1 ELSE 0)
    BY <1>4, <1>8, <1>10
<1>12. \A r \in Providers : stored'[r] <= Asked(r)'
    BY <1>6 DEF Spend, Accounted
<1> QED BY <1>9, <1>11, <1>12 DEF Accounted

\* The request that was counted is made, or lost: either way it is accounted for.
LEMMA AccountedWrite ==
    ASSUME Base, Accounted, NEW c \in Callers, NEW p \in Providers,
           Write(c, p) \/ WriteFails(c, p)
    PROVE  Accounted'
<1> USE DEF Base
<1> DEFINE mine == loc[c].q
<1>1. In(c, "write") /\ mine \in Quotas /\ qlock[mine] = c /\ At(c, p)
    BY DEF Write, WriteFails, LockedUntilWritten, OwnObject, TypeOK, Call, In
<1>2. /\ loc'[c].pc \in {"ask", "idle"}
      /\ \A d \in Callers \ {c} : loc'[d] = loc[d]
    <2>1. CASE Write(c, p)
        BY <2>1 DEF Write, Goto, TypeOK, Call
    <2>2. CASE WriteFails(c, p)
        BY <2>2, EndEffect DEF WriteFails, TypeOK, Call
    <2> QED BY <2>1, <2>2
<1>3. \A r \in Providers : Asked(r)' = Asked(r) + (IF r = p THEN 1 ELSE 0)
    <2>1. /\ granted \in [Providers -> Nat] /\ forfeit \in [Providers -> Nat]
          /\ \/ granted' = [granted EXCEPT ![p] = @ + 1] /\ forfeit' = forfeit
             \/ forfeit' = [forfeit EXCEPT ![p] = @ + 1] /\ granted' = granted
        BY DEF Write, WriteFails, TypeOK
    <2> QED BY <2>1 DEF Asked
<1>4. \A r \in Providers : /\ Asked(r) \in Nat /\ stored[r] \in Nat
                            /\ \A q \in Quotas : used[q][r] \in Nat
    BY DEF Asked, TypeOK
<1>5. \A r \in Providers : used[mine][r] <= Asked(r)'
    <2>1. \A r \in Providers : used[mine][r] <= Asked(r) + (IF At(c, r) THEN 1 ELSE 0)
        BY <1>1 DEF Accounted
    <2>2. \A r \in Providers : At(c, r) => r = p
        BY <1>1 DEF At
    <2> QED BY <1>1, <1>3, <1>4, <2>1, <2>2
<1>6. used' = used /\ \A q \in Quotas : qlock'[q] = IF q = mine THEN None ELSE qlock[q]
    BY DEF Write, WriteFails, TypeOK
<1>7. \A q \in Quotas : qlock'[q] = None => \A r \in Providers : used'[q][r] <= Asked(r)'
    BY <1>3, <1>4, <1>5, <1>6 DEF Accounted
<1>8. ASSUME NEW d \in Callers, In(d, "write")', NEW r \in Providers
      PROVE  used'[loc'[d].q][r] <= Asked(r)' + (IF At(d, r)' THEN 1 ELSE 0)
    <2>1. d # c /\ loc'[d] = loc[d]
        BY <1>2, <1>8 DEF In
    <2>2. In(d, "write") /\ loc[d].q \in Quotas
        BY <1>8, <2>1 DEF OwnObject, In, TypeOK, Call
    <2>3. used[loc[d].q][r] <= Asked(r) + (IF At(d, r) THEN 1 ELSE 0)
        BY <2>2 DEF Accounted
    <2>4. At(d, r)' = At(d, r)
        BY <2>1 DEF At
    <2> QED BY <1>3, <1>4, <1>6, <2>1, <2>2, <2>3, <2>4
<1>9. \A r \in Providers : stored'[r] <= Asked(r)'
    <2>1. \A r \in Providers : stored'[r] = stored[r] \/ stored'[r] = used[mine][r]
        BY DEF Write, WriteFails, TypeOK
    <2> QED BY <1>3, <1>4, <1>5, <2>1 DEF Accounted
<1> QED BY <1>7, <1>8, <1>9 DEF Accounted

LEMMA AccountedStep ==
    ASSUME Base, Accounted, [Next]_vars
    PROVE  Accounted'
<1> USE DEF Base
<1>1. ASSUME UNCHANGED <<counters, granted, forfeit>>,
             \A c \in Callers : loc'[c].pc = "write" => loc'[c] = loc[c]
      PROVE  Accounted'
    BY <1>1 DEF Accounted, Asked, In, At
<1>2. ASSUME NEW c \in Callers, Start(c) \/ Step(c) PROVE Accounted'
    <2> DEFINE quiet == loc'[c].pc # "write" /\ UNCHANGED <<counters, granted, forfeit>>
    <2>0. loc[c] \in Call /\ loc \in [Callers -> Call]
        BY DEF TypeOK
    <2>1. ASSUME Start(c) PROVE quiet
        BY <2>0, <2>1 DEF Start, Fresh, Call
    <2>2. ASSUME GetChain(c) PROVE quiet
        BY <2>0, <2>2 DEF GetChain, Call
    <2>3. ASSUME WireChain(c) PROVE quiet
        BY <2>0, <2>3 DEF WireChain, Goto, Call
    <2>4. ASSUME Check(c) PROVE quiet
        BY <2>0, <2>4, EndEffect DEF Check, Call
    <2>5. ASSUME Unreachable(c) \/ Fail(c) \/ (\E p \in Providers : Exhausted(c, p)) PROVE quiet
        BY <2>0, <2>5 DEF Unreachable, Fail, Exhausted, PassOver, Call
    <2>6. ASSUME Answer(c) \/ NoProvider(c) PROVE quiet
        BY <2>0, <2>6, EndEffect DEF Answer, NoProvider, Call
    <2>7. ASSUME Malformed(c) PROVE quiet
        BY <2>0, <2>7, EndEffect DEF Malformed, Call
    <2>8. CASE BuildQuota(c)
        <3>1. /\ loc[c].pc = "build" /\ loc'[c].pc = "wire"
              /\ \A d \in Callers \ {c} : loc'[d] = loc[d] /\ loc[d].q # loc[c].q
            BY <2>0, <2>8 DEF BuildQuota, Goto, OwnObject, Call, In
        <3>2. \A q \in Quotas : used'[q] = IF q = loc[c].q THEN stored ELSE used[q]
            BY <2>8 DEF BuildQuota, TypeOK
        <3>3. \A d \in Callers : In(d, "write")' =>
                  d # c /\ In(d, "write") /\ loc[d].q \in Quotas
            BY <3>1 DEF OwnObject, In, TypeOK, Call
        <3>4. UNCHANGED <<stored, qlock, granted, forfeit>>
            BY <2>8 DEF BuildQuota
        <3>5. ASSUME NEW d \in Callers, In(d, "write")', NEW r \in Providers
              PROVE  used'[loc'[d].q][r] <= Asked(r)' + (IF At(d, r)' THEN 1 ELSE 0)
            <4>1. used[loc[d].q][r] <= Asked(r) + (IF At(d, r) THEN 1 ELSE 0)
                BY <3>3, <3>5 DEF Accounted
            <4>2. At(d, r)' = At(d, r) /\ loc'[d].q = loc[d].q /\ used'[loc[d].q] = used[loc[d].q]
                BY <3>1, <3>2, <3>3, <3>5 DEF At
            <4> QED BY <3>4, <4>1, <4>2 DEF Asked
        <3>6. \A q \in Quotas : qlock'[q] = None => \A r \in Providers : used'[q][r] <= Asked(r)'
            BY <3>2, <3>4 DEF Accounted, Asked
        <3>7. \A r \in Providers : stored'[r] <= Asked(r)'
            BY <3>4 DEF Accounted, Asked
        <3> QED BY <3>5, <3>6, <3>7 DEF Accounted
    <2>9. CASE \E p \in Providers : Spend(c, p)
        BY <2>9, AccountedSpend
    <2>10. CASE \E p \in Providers : Write(c, p) \/ WriteFails(c, p)
        BY <2>10, AccountedWrite
    <2>11. CASE quiet
        BY <1>1, <1>2, <2>11, Elsewhere
    <2> HIDE DEF quiet
    <2> QED BY <1>2, <2>1, <2>2, <2>3, <2>4, <2>5, <2>6, <2>7, <2>8, <2>9, <2>10, <2>11 DEF Step
<1>3. CASE Crash
    <2>1. /\ \A q \in Quotas, r \in Providers : used'[q][r] = 0
          /\ \A d \in Callers : loc'[d].pc = "idle"
          /\ UNCHANGED <<stored, granted, forfeit>>
        BY <1>3 DEF Crash, Idle, Fresh
    <2>2. \A r \in Providers : Asked(r) \in Nat
        BY DEF Asked, TypeOK
    <2> QED BY <2>1, <2>2 DEF Accounted, Asked, In
<1>4. CASE UNCHANGED <<counters, granted, forfeit, loc>>
    BY <1>1, <1>4
<1> QED BY <1>2, <1>3, <1>4
        DEF Next, Environment, SharedBegin, SharedCommit, SharedFail, Engage, Release,
            vars

\* Requests are never taken back.
LEMMA SpentStays ==
    ASSUME TypeOK, [Next]_vars, NEW p \in Providers, Spent(p)
    PROVE  Spent(p)'
<1> DEFINE up == /\ granted'[p] \in {granted[p], granted[p] + 1}
                 /\ forfeit'[p] \in {forfeit[p], forfeit[p] + 1}
<1>1. granted[p] \in Nat /\ forfeit[p] \in Nat /\ Limit[p] \in Nat
    BY LimitAssumption DEF TypeOK
<1>2. ASSUME NEW c \in Callers, NEW r \in Providers, Write(c, r) PROVE up
    BY <1>2 DEF Write, TypeOK
<1>3. ASSUME NEW c \in Callers, NEW r \in Providers, WriteFails(c, r) PROVE up
    BY <1>3 DEF WriteFails, TypeOK
<1>4. \/ UNCHANGED <<granted, forfeit>>
      \/ \E c \in Callers, r \in Providers : Write(c, r) \/ WriteFails(c, r)
    <2>1. CASE Environment \/ Crash \/ UNCHANGED vars
        BY <2>1 DEF Environment, SharedBegin, SharedCommit, SharedFail, Engage, Release,
                    Crash, vars
    <2>2. ASSUME NEW c \in Callers, Start(c) \/ Step(c)
          PROVE  \/ UNCHANGED <<granted, forfeit>>
                 \/ \E r \in Providers : Write(c, r) \/ WriteFails(c, r)
        BY <2>2 DEF Step, Start, GetChain, BuildQuota, WireChain, Check, Unreachable,
                    Exhausted, Spend, Fail, Answer, Malformed, NoProvider
    <2> QED BY <2>1, <2>2 DEF Next
<1>5. up
    BY <1>2, <1>3, <1>4
<1> QED BY <1>1, <1>5 DEF Spent

\* A caller that does not move, or whose reasons and place are not changed.
LEMMA WhyStays ==
    ASSUME TypeOK, [Next]_vars, NEW d \in Callers, WhyOK(d),
           loc'[d].why = loc[d].why, loc'[d].at = loc[d].at,
           loc'[d].pc \in {"try", "write", "ask"} => loc[d].pc \in {"try", "write", "ask"},
           loc'[d].nobody => loc[d].nobody \/ Spent(Stub)
    PROVE  WhyOK(d)'
<1>1. \A i \in DOMAIN loc[d].why : Chain[i] \in Providers
    BY ChainFacts DEF WhyOK, TypeOK, Call
<1>2. Stub \in Providers
    BY ChainFacts DEF Stub
<1>3. \A p \in Providers : Spent(p) => Spent(p)'
    BY SpentStays
<1>4. Stub' = Stub
    BY DEF Stub
<1> QED BY <1>1, <1>2, <1>3, <1>4 DEF WhyOK

\* What is appended leaves what was there.
LEMMA AppendBefore ==
    ASSUME NEW S, NEW s \in Seq(S), NEW e \in S, NEW i \in 1..Len(s)
    PROVE  Append(s, e)[i] = s[i]
OBVIOUS

\* A caller that notes a reason notes a true one.
LEMMA WhyPassOver ==
    ASSUME TypeOK, [Next]_vars, NEW c \in Callers, WhyOK(c), NEW reason \in Reasons,
           PassOver(c, reason), loc[c].pc \in {"try", "ask"}, loc[c].at \in DOMAIN Chain,
           reason = "exhausted" \/ Chain[loc[c].at] = Stub => Spent(Chain[loc[c].at])
    PROVE  WhyOK(c)'
<1> DEFINE new == [loc[c] EXCEPT !.pc = "try", !.at = @ + 1, !.why = Append(@, reason)]
<1>1. /\ new.pc = "try" /\ new.at = loc[c].at + 1 /\ new.why = Append(loc[c].why, reason)
      /\ new.nobody = loc[c].nobody
    BY DEF TypeOK, Call
<1>2. loc' = [loc EXCEPT ![c] = new]
    BY Zenon DEF PassOver
<1>3. loc'[c] = new
    BY <1>2 DEF TypeOK
<1> HIDE DEF new
<1>4. /\ loc[c].why \in Seq(Reasons) /\ loc[c].at \in Nat /\ Len(Chain) \in Nat
      /\ Len(loc[c].why) = loc[c].at - 1 /\ loc[c].at <= Len(Chain)
    BY ChainFacts DEF TypeOK, Call, WhyOK
<1>5. \A p \in Providers : Spent(p) => Spent(p)'
    BY SpentStays
<1>6. Stub \in Providers /\ Stub' = Stub /\ \A i \in 1..Len(Chain) : Chain[i] \in Providers
    BY ChainFacts DEF Stub
<1>7. DOMAIN loc'[c].why = 1..loc[c].at /\ Len(loc'[c].why) = loc[c].at
    BY <1>1, <1>3, <1>4
<1>8. ASSUME NEW i \in DOMAIN loc'[c].why, loc'[c].why[i] = "exhausted"
      PROVE  Spent(Chain[i])'
    <2>1. CASE i = loc[c].at
        <3>1. reason = "exhausted"
            BY <1>1, <1>3, <1>4, <1>8, <2>1
        <3> QED BY <1>4, <1>5, <1>6, <2>1, <3>1
    <2>2. CASE i # loc[c].at
        <3>1. i \in 1..Len(loc[c].why)
            BY <1>4, <1>7, <1>8, <2>2
        <3>2. loc'[c].why = Append(loc[c].why, reason)
            BY <1>1, <1>3
        <3>3. Append(loc[c].why, reason)[i] = loc[c].why[i]
            BY <1>4, <3>1, AppendBefore
        <3>4. i \in DOMAIN loc[c].why /\ loc[c].why[i] = "exhausted"
            BY <1>4, <1>8, <3>1, <3>2, <3>3
        <3> QED BY <1>4, <1>5, <1>6, <3>1, <3>4 DEF WhyOK
    <2> QED BY <2>1, <2>2
<1>9. loc[c].at + 1 > Len(Chain) => Spent(Stub)'
    BY <1>4, <1>5, <1>6 DEF Stub
<1> QED BY <1>1, <1>3, <1>4, <1>5, <1>6, <1>7, <1>8, <1>9 DEF WhyOK

LEMMA WhyStep ==
    ASSUME Base, Accounted, WhyInv, [Next]_vars
    PROVE  WhyInv'
<1> USE DEF Base
<1>1. ASSUME NEW c \in Callers, Start(c) \/ Step(c) PROVE WhyInv'
    <2> DEFINE stays ==
            /\ loc'[c].why = loc[c].why /\ loc'[c].at = loc[c].at
            /\ loc'[c].pc \in {"try", "write", "ask"} => loc[c].pc \in {"try", "write", "ask"}
            /\ loc'[c].nobody => loc[c].nobody \/ Spent(Stub)
    <2>0. loc[c] \in Call /\ loc \in [Callers -> Call] /\ WhyOK(c)
        BY DEF TypeOK, WhyInv
    <2>ends. ASSUME End(c) \/ NoProvider(c) PROVE WhyInv'
        <3>1. NoProvider(c) => Spent(Stub)'
            <4>1. NoProvider(c) => Spent(Stub)
                BY <2>0 DEF NoProvider, WhyOK, In
            <4>2. Stub \in Providers /\ Stub' = Stub
                BY ChainFacts DEF Stub
            <4> QED BY <4>1, <4>2, SpentStays
        <3>2. /\ loc'[c].pc = "idle" /\ loc'[c].why = <<>>
              /\ loc'[c].nobody => Spent(Stub)'
            BY <2>0, <2>ends, <3>1, EndEffect
        <3>3. WhyOK(c)'
            BY <3>2, ChainFacts DEF WhyOK
        <3> QED BY <1>1, <3>3, Elsewhere, WhyStays DEF WhyInv
    <2>1. CASE Start(c)
        <3>1. /\ loc'[c].why = <<>> /\ loc'[c].pc = "chain" /\ loc'[c].nobody = FALSE
            BY <2>0, <2>1 DEF Start, Fresh
        <3>2. WhyOK(c)'
            BY <3>1, ChainFacts DEF WhyOK
        <3> QED BY <1>1, <3>2, Elsewhere, WhyStays DEF WhyInv
    <2>2. ASSUME GetChain(c) PROVE stays
        BY <2>0, <2>2 DEF GetChain, Call
    <2>3. ASSUME BuildQuota(c) \/ WireChain(c) PROVE stays
        BY <2>0, <2>3 DEF BuildQuota, WireChain, Goto, Call
    <2>4. CASE Check(c)
        <3>1. CASE engaged
            <4> QED BY <2>4, <2>ends, <3>1 DEF Check
        <3>2. CASE ~engaged
            <4> DEFINE new == [loc[c] EXCEPT !.pc = "try", !.at = 1, !.why = <<>>]
            <4>1. new.at = 1 /\ new.why = <<>> /\ new.nobody = loc[c].nobody
                BY <2>0 DEF Call
            <4>2. loc' = [loc EXCEPT ![c] = new]
                BY <2>4, <3>2, Zenon DEF Check
            <4>3. loc'[c] = new
                BY <2>0, <4>2
            <4>4. Stub \in Providers /\ Stub' = Stub
                BY ChainFacts DEF Stub
            <4>5. loc'[c].nobody => Spent(Stub)'
                BY <2>0, <4>1, <4>3, <4>4, SpentStays DEF WhyOK
            <4> HIDE DEF new
            <4>6. WhyOK(c)'
                BY <4>1, <4>3, <4>4, <4>5, ChainFacts DEF WhyOK
            <4> QED BY <1>1, <4>6, Elsewhere, WhyStays DEF WhyInv
        <3> QED BY <3>1, <3>2
    <2>5. CASE Unreachable(c) \/ Fail(c)
        <3>1. \E reason \in Reasons \ {"exhausted"} : PassOver(c, reason)
            BY <2>5 DEF Unreachable, Fail, Reasons
        <3>2. loc[c].pc \in {"try", "ask"} /\ loc[c].at \in DOMAIN Chain
            BY <2>5 DEF Unreachable, Fail, InChain, In
        <3>3. Chain[loc[c].at] # Stub
            BY <2>5, <3>2 DEF Unreachable, Fail, At
        <3>4. WhyOK(c)'
            BY <2>0, <3>1, <3>2, <3>3, WhyPassOver
        <3> QED BY <1>1, <3>4, Elsewhere, WhyStays DEF WhyInv
    <2>6. ASSUME NEW p \in Providers, Exhausted(c, p) PROVE WhyInv'
        <3>1. /\ PassOver(c, "exhausted") /\ loc[c].pc = "try" /\ loc[c].at \in DOMAIN Chain
              /\ Chain[loc[c].at] = p
            BY <2>6 DEF Exhausted, Consuming, In, At
        <3>2. loc[c].q \in Quotas /\ qlock[loc[c].q] = None
            BY <2>0, <2>6 DEF Exhausted, Consuming, OwnObject, In, TypeOK, Call
        <3>3. used[loc[c].q][p] >= Limit[p] /\ used[loc[c].q][p] <= Asked(p)
            BY <2>6, <3>2 DEF Exhausted, Accounted
        <3>4. used[loc[c].q][p] \in Nat /\ Asked(p) \in Nat /\ Limit[p] \in Nat
            BY <3>2, LimitAssumption DEF TypeOK, Asked
        <3>5. Spent(p)
            BY <3>3, <3>4 DEF Spent, Asked
        <3>6. "exhausted" \in Reasons
            BY DEF Reasons
        <3>7. WhyOK(c)'
            BY <2>0, <3>1, <3>5, <3>6, WhyPassOver
        <3> QED BY <1>1, <3>7, Elsewhere, WhyStays DEF WhyInv
    <2>7. CASE Answer(c)
        BY <2>7, <2>ends DEF Answer
    <2>8. CASE NoProvider(c)
        BY <2>8, <2>ends
    <2>9. CASE Malformed(c)
        <3>1. CASE End(c)
            BY <2>ends, <3>1
        <3>2. CASE ~End(c)
            <4> DEFINE new == [loc[c] EXCEPT !.pc = "check", !.tries = @ + 1]
            <4>1. /\ new.why = loc[c].why /\ new.at = loc[c].at
                  /\ new.pc = "check" /\ new.nobody = loc[c].nobody
                BY <2>0 DEF Call
            <4>2. loc' = [loc EXCEPT ![c] = new]
                BY <2>9, <3>2, Zenon DEF Malformed
            <4> HIDE DEF new
            <4>3. stays
                BY <2>0, <4>1, <4>2
            <4> QED BY <1>1, <2>0, <4>3, Elsewhere, WhyStays DEF WhyInv
        <3> QED BY <3>1, <3>2
    <2>10. ASSUME NEW p \in Providers, Spend(c, p) \/ Write(c, p) PROVE stays
        <3> DEFINE s == IF Spend(c, p) THEN "write" ELSE "ask"
                   new == [loc[c] EXCEPT !.pc = s]
        <3>1. loc[c].pc \in {"try", "write"}
            BY <2>10 DEF Spend, Consuming, Write, In
        <3>2. loc' = [loc EXCEPT ![c] = new]
            BY <2>10, Zenon DEF Spend, Write, Goto
        <3>3. new.why = loc[c].why /\ new.at = loc[c].at /\ new.nobody = loc[c].nobody
            BY <2>0 DEF Call
        <3> HIDE DEF new
        <3> QED BY <2>0, <3>1, <3>2, <3>3
    <2>11. ASSUME NEW p \in Providers, WriteFails(c, p) PROVE WhyInv'
        BY <2>11, <2>ends DEF WriteFails
    <2>12. CASE stays
        BY <1>1, <2>0, <2>12, Elsewhere, WhyStays DEF WhyInv
    <2> HIDE DEF stays
    <2> QED BY <1>1, <2>1, <2>2, <2>3, <2>4, <2>5, <2>6, <2>7, <2>8, <2>9, <2>10, <2>11,
               <2>12 DEF Step
<1>2. CASE Crash
    BY <1>2, ChainFacts DEF Crash, Idle, Fresh, WhyInv, WhyOK
<1>3. CASE UNCHANGED loc
    BY <1>3, WhyStays DEF WhyInv
<1> QED BY <1>1, <1>2, <1>3
        DEF Next, Environment, SharedBegin, SharedCommit, SharedFail, Engage, Release,
            vars

\* A provider is passed over as exhausted, and a call finds nobody, only when the budget
\* went to requests made, or to a consume that raised (LLMChain.complete).
THEOREM ExhaustedIsTrue == Spec => []SpentWhenRefused
<1> DEFINE J == Base /\ Accounted /\ WhyInv
<1>1. Init => J
    <2>1. Init => Accounted
        BY DEF Init, Accounted, Asked, Idle, Fresh, In
    <2>2. Init => WhyInv
        BY ChainFacts DEF Init, WhyInv, WhyOK, Idle, Fresh
    <2> QED BY <2>1, <2>2, BaseInit
<1>2. J /\ [Next]_vars => J'
    BY BaseStep, AccountedStep, WhyStep
<1>3. J => SpentWhenRefused
    BY DEF WhyInv, WhyOK, SpentWhenRefused
<1> QED BY <1>1, <1>2, <1>3, PTL DEF Spec

-----------------------------------------------------------------------------
(* The kill switch and what is under way.                                  *)

\* The providers asked since the switch was engaged lie behind the loop.
Behind(c) == {Chain[i] : i \in 1..(loc[c].at - 1)}
LateInv ==
    /\ ~engaged => \A c \in Callers : late[c] = {}
    /\ \A c \in Callers :
        /\ loc[c].pc \in {"try", "write"} => late[c] \subseteq Behind(c)
        /\ In(c, "ask") => late[c] \subseteq Behind(c) \cup {Chain[loc[c].at]}

\* A step of one caller that asks nobody and stays where it is or leaves the loop.
LEMMA LateQuiet ==
    ASSUME LateInv, NEW c \in Callers, UNCHANGED <<engaged, late>>,
           \A d \in Callers : d # c => loc'[d] = loc[d],
           \/ loc'[c].pc \notin {"try", "write", "ask"}
           \/ loc[c].pc = "try" /\ loc'[c].pc = "write" /\ loc'[c].at = loc[c].at
    PROVE  LateInv'
BY DEF LateInv, Behind, In

LEMMA LatePassOver ==
    ASSUME TypeOK, LateInv, NEW c \in Callers, UNCHANGED <<engaged, late>>,
           \A d \in Callers : d # c => loc'[d] = loc[d],
           loc[c].pc \in {"try", "ask"}, loc'[c].pc = "try", loc'[c].at = loc[c].at + 1
    PROVE  LateInv'
<1>1. loc[c].at \in Nat /\ loc[c].at >= 1
    BY ChainFacts DEF TypeOK, Call
<1>2. Behind(c)' = Behind(c) \cup {Chain[loc[c].at]}
    BY <1>1 DEF Behind
<1>3. late'[c] \subseteq Behind(c)'
    BY <1>2 DEF LateInv, In
<1>4. \A d \in Callers \ {c} : Behind(d)' = Behind(d)
    BY DEF Behind
<1> QED BY <1>3, <1>4 DEF LateInv, In

LEMMA LateWrite ==
    ASSUME TypeOK, LateInv, NEW c \in Callers, NEW p \in Providers, Write(c, p)
    PROVE  LateInv'
<1>1. loc'[c].pc = "ask" /\ loc'[c].at = loc[c].at /\ p = Chain[loc[c].at]
    BY DEF Write, Goto, At, TypeOK, Call
<1>2. \A d \in Callers : d # c => loc'[d] = loc[d] /\ late'[d] = late[d]
    BY DEF Write, Goto, TypeOK
<1>3. late'[c] \subseteq late[c] \cup {p} /\ (~engaged => late'[c] = late[c])
    BY DEF Write, TypeOK
<1>4. late[c] \subseteq Behind(c) /\ engaged' = engaged
    BY DEF Write, LateInv, In
<1>5. \A d \in Callers : Behind(d)' = Behind(d)
    BY <1>1, <1>2 DEF Behind
<1> QED BY <1>1, <1>2, <1>3, <1>4, <1>5 DEF LateInv, In

LEMMA LateCheck ==
    ASSUME TypeOK, LateInv, NEW c \in Callers, Check(c)
    PROVE  LateInv'
<1>1. \A d \in Callers : d # c => loc'[d] = loc[d]
    BY Elsewhere DEF Step
<1>2. CASE engaged
    <2>1. loc'[c].pc = "idle"
        BY <1>2, EndEffect DEF Check, TypeOK, Call
    <2> QED BY <1>1, <2>1, LateQuiet DEF Check
<1>3. CASE ~engaged
    <2>1. \A d \in Callers : late'[d] = {}
        BY <1>3 DEF Check, LateInv
    <2> QED BY <2>1 DEF LateInv, Check
<1> QED BY <1>2, <1>3

LEMMA LateStep ==
    ASSUME TypeOK, LateInv, [Next]_vars
    PROVE  LateInv'
<1>1. ASSUME NEW c \in Callers, Start(c) PROVE LateInv'
    <2>1. loc'[c].pc = "chain" /\ late'[c] = {} /\ engaged' = engaged
        BY <1>1 DEF Start, Fresh, TypeOK
    <2>2. \A d \in Callers : d # c => loc'[d] = loc[d] /\ late'[d] = late[d]
        BY <1>1, Elsewhere DEF Start, TypeOK
    <2>3. \A d \in Callers \ {c} : Behind(d)' = Behind(d)
        BY <2>2 DEF Behind
    <2> QED BY <2>1, <2>2, <2>3 DEF LateInv, In
<1>2. ASSUME NEW c \in Callers, Step(c) PROVE LateInv'
    <2> DEFINE away == /\ UNCHANGED <<engaged, late>>
                       /\ loc'[c].pc \notin {"try", "write", "ask"}
    <2>0. /\ loc[c] \in Call /\ loc \in [Callers -> Call]
          /\ \A d \in Callers : d # c => loc'[d] = loc[d]
        BY <1>2, Elsewhere DEF TypeOK
    <2>1. ASSUME GetChain(c) PROVE away
        BY <2>0, <2>1 DEF GetChain, Call
    <2>2. ASSUME BuildQuota(c) \/ WireChain(c) PROVE away
        BY <2>0, <2>2 DEF BuildQuota, WireChain, Goto, Call
    <2>3. ASSUME Answer(c) \/ NoProvider(c) \/ (\E p \in Providers : WriteFails(c, p)) PROVE away
        BY <2>0, <2>3, EndEffect DEF Answer, NoProvider, WriteFails, Call
    <2>4. ASSUME Malformed(c) PROVE away
        BY <2>0, <2>4, EndEffect DEF Malformed, Call
    <2>5. CASE Check(c)
        BY <2>5, LateCheck
    <2>6. CASE Unreachable(c) \/ Fail(c) \/ \E p \in Providers : Exhausted(c, p)
        <3>1. \E reason \in Reasons : PassOver(c, reason)
            BY <2>6 DEF Unreachable, Fail, Exhausted, Reasons
        <3>2. loc'[c].pc = "try" /\ loc'[c].at = loc[c].at + 1
            BY <2>0, <3>1, PassOverEffect
        <3>3. UNCHANGED <<engaged, late>> /\ loc[c].pc \in {"try", "ask"}
            BY <2>6 DEF Unreachable, Fail, Exhausted, Consuming, In
        <3> QED BY <2>0, <3>2, <3>3, LatePassOver
    <2>7. CASE \E p \in Providers : Spend(c, p)
        <3>1. loc'[c].pc = "write" /\ loc'[c].at = loc[c].at
            BY <2>0, <2>7 DEF Spend, Goto, Call
        <3>2. UNCHANGED <<engaged, late>> /\ loc[c].pc = "try"
            BY <2>7 DEF Spend, Consuming, In
        <3> QED BY <2>0, <3>1, <3>2, LateQuiet
    <2>8. CASE \E p \in Providers : Write(c, p)
        BY <2>8, LateWrite
    <2>9. CASE away
        BY <2>0, <2>9, LateQuiet
    <2> HIDE DEF away
    <2> QED BY <1>2, <2>1, <2>2, <2>3, <2>4, <2>5, <2>6, <2>7, <2>8, <2>9 DEF Step
<1>3. CASE Engage
    BY <1>3 DEF Engage, LateInv, Behind, In
<1>4. CASE Release \/ Crash
    <2>1. \A c \in Callers : late'[c] = {}
        BY <1>4 DEF Release, Crash
    <2> QED BY <2>1 DEF LateInv
<1>5. CASE UNCHANGED <<engaged, late, loc>>
    BY <1>5 DEF LateInv, Behind, In
<1> QED BY <1>1, <1>2, <1>3, <1>4, <1>5
        DEF Next, Environment, SharedBegin, SharedCommit, SharedFail, vars

\* While the switch stays engaged, a call that slipped by asks each provider once
\* at most, retries included (killswitch.check at the head of complete).
THEOREM SwitchStopsRetries == Spec => OnceThroughAtMost
<1>1. Init => LateInv
    BY DEF Init, LateInv, Idle, Fresh, In
<1>2. Base /\ LateInv /\ [Next]_vars => Base' /\ LateInv'
    BY BaseStep, LateStep DEF Base
<1>3. Base /\ LateInv =>
        \A c \in Callers : Sends(c) /\ engaged => Chain[loc[c].at] \notin late[c]
    <2> SUFFICES ASSUME Base, LateInv, NEW c \in Callers, Sends(c)
                 PROVE  Chain[loc[c].at] \notin late[c]
        OBVIOUS
    <2>1. loc[c].at \in DOMAIN Chain /\ loc[c].at \in Nat
        BY ChainFacts DEF Base, InChain, Sends, In
    <2>2. late[c] \subseteq Behind(c)
        BY DEF Sends, LateInv, In
    <2>3. Chain[loc[c].at] \notin Behind(c)
        BY <2>1, ChainFacts, ChainAssumption DEF Behind
    <2> QED BY <2>2, <2>3
<1> QED BY <1>1, <1>2, <1>3, BaseInit, PTL DEF Spec, OnceThroughAtMost

=============================================================================
