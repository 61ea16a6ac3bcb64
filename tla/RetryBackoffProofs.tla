-------------------------- MODULE RetryBackoffProofs --------------------------
(***************************************************************************)
(* For any number of callers, attempts, rotations and crashes: a failure   *)
(* that is raised is on record and nothing else is, a credential that is used was fetched in   *)
(* the attempt that uses it, and the sleeps between the attempts add up to *)
(* less than the doubled delay of the last one that is slept.              *)
(***************************************************************************)
EXTENDS RetryBackoff, FiniteSetTheorems, WellFoundedInduction, TLAPS

(* The part of TypeOK the argument needs. *)
CallsTyped ==
    /\ version \in Nat
    /\ pc \in [Callers -> {"loop", "fetch", "use", "create", "raise", "done"}]
    /\ request \in [Callers -> Requests]
    /\ credential \in [Callers -> Int]
    /\ limit \in [Callers -> Int] /\ attempt \in [Callers -> Int]
    /\ exc \in [Callers -> Errors \cup {"none"}]
    /\ result \in [Callers -> Errors \cup
          {"none", "value", "crashed", "AssertionError", "ValidationError", "PutFailed"}]
    /\ since \in [Callers -> Nat]

(* A call has a result when it is done and not before; it has given up     *)
(* when it is about to record, and has its letter when it is about to raise. *)
ResultsTrack ==
    \A c \in Callers :
        /\ pc[c] # "done" => result[c] = "none"
        /\ pc[c] \in {"loop", "fetch", "use", "create"} => LettersOf(c) = {}
        /\ pc[c] = "create" => GaveUp(c)
        /\ pc[c] = "raise" => exc[c] \in Errors /\ LettersOf(c) # {}
        /\ since[c] <= version

RInv == CallsTyped /\ ResultsTrack /\ FailureRecorded /\ CredentialFresh

(* The invariant of the results and letters holds before any call.         *)
LEMMA InitiallyR == Init => RInv
  BY AttemptsAssumption
     DEF Init, RInv, CallsTyped, ResultsTrack, FailureRecorded, CredentialFresh, LettersOf, GaveUp,
         Errors, CredentialErrors, ToolErrors

(* No value, and nothing of the dead letter's own, is an exception of      *)
(* the call.                                                               *)
LEMMA ErrorsAreExceptions ==
    /\ Transient \subseteq Errors
    /\ {"none", "value", "crashed", "AssertionError", "ValidationError", "PutFailed"} \cap Errors = {}
  BY DEF Transient, Errors, CredentialErrors, ToolErrors

-------------------------------------------------------------------------------
(* What an attempt that failed leaves behind. *)
LEMMA FailShape ==
    ASSUME NEW c \in Callers, NEW e \in Errors, CallsTyped, Fail(c, e)
    PROVE  /\ \E place \in {"loop", "create"} :
                 /\ pc' = [pc EXCEPT ![c] = place]
                 /\ place = "create" => e \notin Transient \/ attempt'[c] = limit[c]
           /\ exc' = [exc EXCEPT ![c] = e]
           /\ credential' = [credential EXCEPT ![c] = -1]
           /\ attempt' = [attempt EXCEPT ![c] = attempt[c] + 1]
  BY DEF Fail, Goto, CallsTyped

(* A step of a call that has no letter, ends no call, records nothing, and *)
(* does not begin to use a credential.                                     *)
LEMMA GoingOnPreserves ==
    ASSUME RInv, NEW c \in Callers, pc[c] \in {"loop", "fetch", "use", "create"},
           NEW place \in {"loop", "fetch", "create"}, pc' = [pc EXCEPT ![c] = place],
           NEW e \in Errors \cup {"none"}, exc' = [exc EXCEPT ![c] = e],
           NEW n \in Int, attempt' = [attempt EXCEPT ![c] = n],
           place = "create" => e \in Errors /\ (e \notin Transient \/ n = limit[c]),
           credential' \in [Callers -> Int],
           \A d \in Callers \ {c} : credential'[d] = credential[d],
           UNCHANGED <<version, letters, request, limit, result>>,
           since' \in [Callers -> Nat],
           \A d \in Callers : since'[d] \in {since[d], version},
           \A d \in Callers \ {c} : since'[d] = since[d]
    PROVE  RInv'
<1> USE DEF RInv
<1>1. CallsTyped'
  BY DEF CallsTyped
<1>2. /\ pc'[c] = place /\ exc'[c] = e /\ attempt'[c] = n
      /\ \A d \in Callers \ {c} : pc'[d] = pc[d] /\ exc'[d] = exc[d] /\ attempt'[d] = attempt[d]
      /\ \A d \in Callers : LettersOf(d)' = LettersOf(d) /\ result'[d] = result[d]
      /\ LettersOf(c) = {}
      /\ limit' = limit /\ version' = version
  BY DEF CallsTyped, ResultsTrack, LettersOf
<1>3. ResultsTrack'
  BY <1>2 DEF ResultsTrack, CallsTyped, GaveUp
<1>4. FailureRecorded'
  BY <1>2 DEF FailureRecorded, GaveUp
<1>5. CredentialFresh'
  BY <1>2 DEF CredentialFresh, CallsTyped
<1> QED
  BY <1>1, <1>3, <1>4, <1>5

(* A call that ends without an exception of its own: without a letter, or  *)
(* in a way that may leave the one it has.                                 *)
LEMMA EndPreserves ==
    ASSUME RInv, NEW c \in Callers, pc[c] # "done",
           NEW how \in {"value", "crashed", "AssertionError", "ValidationError", "PutFailed"},
           LettersOf(c) = {} \/ how = "crashed",
           End(c, how),
           UNCHANGED <<version, letters, request, limit, attempt, exc>>,
           since' \in [Callers -> Nat],
           \A d \in Callers : since'[d] \in {since[d], version},
           \A d \in Callers \ {c} : since'[d] = since[d]
    PROVE  RInv'
<1> USE DEF RInv, End, Goto
<1>1. CallsTyped'
  <2>1. /\ pc' \in [Callers -> {"loop", "fetch", "use", "create", "raise", "done"}]
        /\ credential' \in [Callers -> Int]
    BY DEF CallsTyped
  <2>2. result' \in [Callers -> Errors \cup
          {"none", "value", "crashed", "AssertionError", "ValidationError", "PutFailed"}]
    BY DEF CallsTyped
  <2> QED
    BY <2>1, <2>2 DEF CallsTyped
<1>2. /\ pc'[c] = "done" /\ result'[c] = how /\ how \notin Errors
      /\ \A d \in Callers \ {c} : pc'[d] = pc[d] /\ result'[d] = result[d]
      /\ \A d \in Callers : LettersOf(d)' = LettersOf(d) /\ GaveUp(d)' = GaveUp(d)
      /\ exc' = exc /\ version' = version
  BY ErrorsAreExceptions DEF CallsTyped, LettersOf, GaveUp
<1>3. ResultsTrack'
  BY <1>2 DEF ResultsTrack
<1>4. FailureRecorded'
  BY <1>2 DEF FailureRecorded
<1>5. CredentialFresh'
  BY <1>2 DEF CredentialFresh, CallsTyped
<1> QED
  BY <1>1, <1>3, <1>4, <1>5

(* A letter about the exception of a call that has given up, while the     *)
(* call is about to raise it or loses the answer.                          *)
LEMMA LetterPreserves ==
    ASSUME RInv, NEW c \in Callers, pc[c] = "create", letters' = letters \cup {LetterFor(c)},
           \/ Goto(c, "raise") /\ UNCHANGED <<credential, result>>
           \/ End(c, "PutFailed"),
           UNCHANGED <<version, request, limit, attempt, exc, since>>
    PROVE  RInv'
<1> USE DEF RInv, End, Goto
<1>1. /\ LettersOf(c) = {} /\ GaveUp(c) /\ exc[c] \in Errors /\ result[c] = "none"
  BY DEF ResultsTrack, GaveUp
<1>2. LettersOf(c)' = {LetterFor(c)} /\ LetterFor(c).error_detail = exc[c]
  BY <1>1 DEF LettersOf, LetterFor
<1>3. /\ \A d \in Callers \ {c} : LettersOf(d)' = LettersOf(d) /\ result'[d] = result[d] /\ pc'[d] = pc[d]
      /\ \A d \in Callers : GaveUp(d)' = GaveUp(d)
      /\ exc' = exc /\ version' = version /\ since' = since
  BY DEF LettersOf, LetterFor, GaveUp, CallsTyped
<1>4. /\ pc'[c] \in {"raise", "done"} /\ result'[c] \in {"none", "PutFailed"}
      /\ pc'[c] # "done" => result'[c] = "none"
  BY <1>1 DEF CallsTyped
<1>5. CallsTyped'
  BY DEF CallsTyped
<1>6. ResultsTrack'
  BY <1>1, <1>2, <1>3, <1>4 DEF ResultsTrack
<1>7. FailureRecorded'
  <2> SUFFICES ASSUME NEW d \in Callers
               PROVE  /\ result'[d] \in Errors => LettersOf(d)' # {}
                      /\ \A l \in LettersOf(d)' :
                            /\ LettersOf(d)' = {l} /\ l.error_detail = exc'[d]
                            /\ GaveUp(d)'
                            /\ result'[d] \in {"none", "PutFailed", "crashed", exc'[d]}
    BY DEF FailureRecorded
  <2>1. CASE d = c
    BY <1>1, <1>2, <1>3, <1>4, <2>1
  <2>2. CASE d # c
    BY <1>3, <2>2 DEF FailureRecorded
  <2> QED
    BY <2>1, <2>2
<1>8. CredentialFresh'
  BY <1>3, <1>4 DEF CredentialFresh, CallsTyped
<1> QED
  BY <1>5, <1>6, <1>7, <1>8

(* A new attempt begins with no credential.                                *)
LEMMA LoopPreserves ==
    ASSUME RInv, NEW c \in Callers, Loop(c)
    PROVE  RInv'
<1>1. /\ since' \in [Callers -> Nat]
      /\ \A d \in Callers : since'[d] \in {since[d], version}
      /\ \A d \in Callers \ {c} : since'[d] = since[d]
  BY DEF Loop, RInv, CallsTyped
<1>2. CASE attempt[c] < limit[c]
  <2>1. /\ pc[c] # "done" /\ pc' = [pc EXCEPT ![c] = "fetch"]
        /\ UNCHANGED <<version, letters, request, limit, attempt, result, credential, exc>>
        /\ pc[c] = "loop"
    BY <1>2 DEF Loop, Goto
  <2>2. /\ exc[c] \in Errors \cup {"none"} /\ exc' = [exc EXCEPT ![c] = exc[c]]
        /\ attempt[c] \in Int /\ attempt' = [attempt EXCEPT ![c] = attempt[c]]
    BY <2>1 DEF RInv, CallsTyped
  <2>3. credential' \in [Callers -> Int]
    BY <2>1 DEF RInv, CallsTyped
  <2> QED
    BY <1>1, <2>1, <2>2, <2>3, GoingOnPreserves
<1>3. CASE ~(attempt[c] < limit[c])
  <2>1. LettersOf(c) = {}
    BY DEF Loop, RInv, ResultsTrack
  <2> QED
    BY <1>1, <1>3, <2>1, EndPreserves DEF Loop
<1> QED
  BY <1>2, <1>3

(* Only a fetch leads to the use of a credential, and it takes the current *)
(* version.                                                                *)
LEMMA FetchPreserves ==
    ASSUME RInv, NEW c \in Callers, Fetch(c)
    PROVE  RInv'
<1>1. CASE \E v \in Fetched : credential' = [credential EXCEPT ![c] = v] /\ Goto(c, "use")
                              /\ UNCHANGED <<attempt, exc, delay>>
  <2> USE DEF RInv, Fetch, Fetched, Goto
  <2>1. /\ credential' = [credential EXCEPT ![c] = version]
        /\ pc' = [pc EXCEPT ![c] = "use"] /\ pc[c] = "fetch"
        /\ UNCHANGED <<version, letters, request, limit, attempt, result, exc, since>>
    BY <1>1
  <2>2. CallsTyped'
    BY <2>1 DEF CallsTyped
  <2>3. ResultsTrack'
    BY <2>1 DEF ResultsTrack, CallsTyped, LettersOf, GaveUp
  <2>4. FailureRecorded'
    BY <2>1 DEF FailureRecorded, LettersOf, GaveUp
  <2>5. CredentialFresh'
    BY <2>1 DEF CredentialFresh, CallsTyped, ResultsTrack
  <2> QED
    BY <2>2, <2>3, <2>4, <2>5
<1>2. CASE \E e \in FetchErrors(c) : Fail(c, e)
  <2>1. PICK e \in FetchErrors(c) : Fail(c, e)
    BY <1>2
  <2>2. e \in Errors
    BY <2>1 DEF FetchErrors, Errors, CredentialErrors, RInv, CallsTyped, Requests
  <2>3. CallsTyped /\ pc[c] = "fetch" /\ UNCHANGED <<version, letters, request, limit, result, since>>
    BY DEF Fetch, RInv
  <2>4. /\ credential' \in [Callers -> Int]
        /\ \A d \in Callers \ {c} : credential'[d] = credential[d]
        /\ since' \in [Callers -> Nat] /\ \A d \in Callers : since'[d] = since[d]
    BY <2>1, <2>2, <2>3, FailShape DEF CallsTyped
  <2>5. attempt[c] + 1 \in Int /\ attempt'[c] = attempt[c] + 1
    BY <2>1, <2>2, <2>3, FailShape DEF CallsTyped
  <2> QED
    BY <2>1, <2>2, <2>3, <2>4, <2>5, FailShape, GoingOnPreserves
<1> QED
  BY <1>1, <1>2 DEF Fetch

(* A use of the tool ends the call or fails its attempt.                   *)
LEMMA UseToolPreserves ==
    ASSUME RInv, NEW c \in Callers, UseTool(c)
    PROVE  RInv'
<1>1. /\ CallsTyped /\ pc[c] = "use" /\ LettersOf(c) = {}
      /\ UNCHANGED <<version, letters, request, limit, since>>
      /\ since' \in [Callers -> Nat] /\ \A d \in Callers : since'[d] = since[d]
  BY DEF UseTool, RInv, CallsTyped, ResultsTrack
<1>2. CASE End(c, "value") /\ UNCHANGED <<attempt, exc, delay>>
  BY <1>1, <1>2, EndPreserves
<1>3. ASSUME NEW e \in ToolErrors, Fail(c, e), UNCHANGED result
      PROVE  RInv'
  <2>1. e \in Errors
    BY DEF Errors
  <2>2. /\ credential' \in [Callers -> Int]
        /\ \A d \in Callers \ {c} : credential'[d] = credential[d]
    BY <1>1, <1>3, <2>1, FailShape DEF CallsTyped
  <2>3. attempt[c] + 1 \in Int /\ attempt'[c] = attempt[c] + 1
    BY <1>1, <1>3, <2>1, FailShape DEF CallsTyped
  <2> QED
    BY <1>1, <1>3, <2>1, <2>2, <2>3, FailShape, GoingOnPreserves
<1> QED
  BY <1>2, <1>3 DEF UseTool, ToolErrors

(* A letter of the call's own, or another exception and none.              *)
LEMMA CreateLetterPreserves ==
    ASSUME RInv, NEW c \in Callers, CreateLetter(c)
    PROVE  RInv'
<1>1. /\ pc[c] = "create" /\ LettersOf(c) = {}
      /\ UNCHANGED <<version, request, limit, attempt, exc, since>>
      /\ since' \in [Callers -> Nat] /\ \A d \in Callers : since'[d] = since[d]
  BY DEF CreateLetter, RInv, CallsTyped, ResultsTrack
<1>2. CASE UNCHANGED letters /\ (End(c, "ValidationError") \/ End(c, "PutFailed"))
  BY <1>1, <1>2, EndPreserves
<1>3. CASE /\ letters' = letters \cup {LetterFor(c)}
           /\ \/ Goto(c, "raise") /\ UNCHANGED <<credential, result>>
              \/ End(c, "PutFailed")
  BY <1>1, <1>3, LetterPreserves
<1> QED
  BY <1>2, <1>3 DEF CreateLetter

(* The exception that is raised has its letter.                            *)
LEMMA RaisePreserves ==
    ASSUME RInv, NEW c \in Callers, Raise(c)
    PROVE  RInv'
<1> USE DEF RInv, Raise, End, Goto
<1>1. exc[c] \in Errors /\ LettersOf(c) # {} /\ pc[c] = "raise"
  BY DEF ResultsTrack
<1>2. CallsTyped'
  BY <1>1 DEF CallsTyped
<1>3. /\ pc'[c] = "done" /\ result'[c] = exc[c]
      /\ \A d \in Callers \ {c} : pc'[d] = pc[d] /\ result'[d] = result[d]
      /\ \A d \in Callers : LettersOf(d)' = LettersOf(d) /\ GaveUp(d)' = GaveUp(d)
      /\ exc' = exc /\ version' = version /\ since' = since
  BY DEF CallsTyped, LettersOf, GaveUp
<1>4. ResultsTrack'
  BY <1>3 DEF ResultsTrack
<1>5. FailureRecorded'
  BY <1>1, <1>3 DEF FailureRecorded
<1>6. CredentialFresh'
  BY <1>3 DEF CredentialFresh, CallsTyped
<1> QED
  BY <1>2, <1>4, <1>5, <1>6

(* A call that dies, wherever it is, raises nothing.                       *)
LEMMA CrashPreserves ==
    ASSUME RInv, NEW c \in Callers, Crash(c)
    PROVE  RInv'
<1>1. /\ pc[c] # "done" /\ End(c, "crashed")
      /\ UNCHANGED <<version, letters, request, limit, attempt, exc>>
      /\ since' \in [Callers -> Nat] /\ \A d \in Callers : since'[d] = since[d]
  BY DEF Crash, RInv, CallsTyped
<1> QED
  BY <1>1, EndPreserves

(* A rotation makes every credential older, never newer than the secret.   *)
LEMMA RotatePreserves ==
    ASSUME RInv, Rotate
    PROVE  RInv'
<1> USE DEF RInv, Rotate, call
<1>1. CallsTyped' /\ ResultsTrack'
  BY DEF CallsTyped, ResultsTrack, LettersOf, GaveUp
<1>2. FailureRecorded'
  BY DEF FailureRecorded, LettersOf, GaveUp
<1>3. CredentialFresh'
  BY DEF CredentialFresh, CallsTyped
<1> QED
  BY <1>1, <1>2, <1>3

-------------------------------------------------------------------------------
(* The invariant holds in every reachable state. *)
LEMMA RInvHolds == Spec => []RInv
<1>1. RInv /\ UNCHANGED vars => RInv'
  BY DEF RInv, vars, call, CallsTyped, ResultsTrack, FailureRecorded, CredentialFresh, LettersOf, GaveUp
<1>2. RInv /\ Next => RInv'
  BY LoopPreserves, FetchPreserves, UseToolPreserves, CreateLetterPreserves, RaisePreserves,
     CrashPreserves, RotatePreserves DEF Next, Call
<1> QED
  BY InitiallyR, <1>1, <1>2, PTL DEF Spec

(* A call that raises its own exception has left a dead letter; a letter   *)
(* is the only one of its call, about the error that call gave up on, and  *)
(* no call that returned a value or made no attempt has one.               *)
THEOREM FailuresAreRecorded == Spec => []FailureRecorded
<1>1. RInv => FailureRecorded
  BY DEF RInv
<1> QED
  BY <1>1, RInvHolds, PTL

(* No attempt uses a credential older than itself. *)
THEOREM CredentialsAreFresh == Spec => []CredentialFresh
<1>1. RInv => CredentialFresh
  BY DEF RInv
<1> QED
  BY <1>1, RInvHolds, PTL

-------------------------------------------------------------------------------
(* Induction over the naturals, as the least of a set of counterexamples:  *)
(* of the intervals 1 .. n for n in the set, the least by inclusion.       *)
LEMMA LeastElement ==
    ASSUME NEW S \in SUBSET Nat, S # {}
    PROVE  \E n \in S : \A m \in S : n <= m
<1> DEFINE T == {1 .. n : n \in S}
<1>1. IsWellFoundedOn(StrictSubsetOrdering(Nat), FiniteSubsetsOf(Nat))
  BY FS_StrictSubsetOrderingWellFounded
<1>2. T \subseteq FiniteSubsetsOf(Nat) /\ T # {}
  <2>1. \A n \in Nat : IsFiniteSet(1 .. n) /\ 1 .. n \subseteq Nat
    BY FS_Interval
  <2> QED
    BY <2>1 DEF FiniteSubsetsOf
<1> HIDE DEF T
<1>3. PICK x \in T : \A y \in T : ~(<<y, x>> \in StrictSubsetOrdering(Nat))
  BY <1>1, <1>2, WFMin
<1> USE DEF T
<1>4. PICK n \in S : x = 1 .. n
  OBVIOUS
<1>5. ASSUME NEW m \in S, m < n PROVE FALSE
  <2>1. 1 .. m \in T /\ 1 .. m \subseteq 1 .. n /\ n \in 1 .. n /\ n \notin 1 .. m
    BY <1>5
  <2>2. <<1 .. m, x>> \in StrictSubsetOrdering(Nat)
    BY <1>4, <2>1 DEF StrictSubsetOrdering
  <2> QED
    BY <1>3, <2>1, <2>2
<1> QED
  BY <1>5

(* A recursive function is what its equation says only if some function    *)
(* satisfies it.  This one is put together from its beginnings.            *)
IsBackoffTo(n, f) ==
    /\ f \in [0 .. n -> Nat \ {0}]
    /\ f[0] = 1
    /\ \A i \in 1 .. n : f[i] = 2 * f[i - 1]

(* There is a table of the delays as far as one likes, by induction.       *)
LEMMA BackoffTo == \A n \in Nat : \E f : IsBackoffTo(n, f)
<1> DEFINE S == {n \in Nat : ~\E f : IsBackoffTo(n, f)}
<1> SUFFICES ASSUME S # {} PROVE FALSE
  OBVIOUS
<1>1. PICK n \in S : \A m \in S : n <= m
  <2> HIDE DEF S
  <2>1. S \in SUBSET Nat
    BY DEF S
  <2> QED
    BY <2>1, LeastElement
<1>2. n # 0
  <2>1. IsBackoffTo(0, [i \in 0 .. 0 |-> 1])
    BY DEF IsBackoffTo
  <2> QED
    BY <1>1, <2>1
<1>3. n - 1 \in Nat /\ n - 1 \notin S
  BY <1>1, <1>2
<1>4. PICK f : IsBackoffTo(n - 1, f)
  BY <1>3
<1>5. IsBackoffTo(n, [i \in 0 .. n |-> IF i = n THEN 2 * f[n - 1] ELSE f[i]])
  BY <1>2, <1>3, <1>4 DEF IsBackoffTo
<1> QED
  BY <1>1, <1>5

(* Two tables agree as far as both reach, by induction.                    *)
LEMMA BackoffAgree ==
    ASSUME NEW n \in Nat, NEW f, IsBackoffTo(n, f), NEW m \in Nat, NEW g, IsBackoffTo(m, g)
    PROVE  \A i \in 0 .. n \cap 0 .. m : f[i] = g[i]
<1> DEFINE S == {i \in Nat : i <= n /\ i <= m /\ f[i] # g[i]}
<1> SUFFICES ASSUME S # {} PROVE FALSE
  OBVIOUS
<1>1. PICK k \in S : \A j \in S : k <= j
  <2> HIDE DEF S
  <2>1. S \in SUBSET Nat
    BY DEF S
  <2> QED
    BY <2>1, LeastElement
<1>2. k # 0
  BY <1>1 DEF IsBackoffTo
<1>3. k - 1 \in Nat /\ k - 1 \notin S /\ k \in 1 .. n /\ k \in 1 .. m
  BY <1>1, <1>2
<1>4. f[k - 1] = g[k - 1]
  BY <1>3
<1>5. f[k] = 2 * f[k - 1] /\ g[k] = 2 * g[k - 1]
  BY <1>3 DEF IsBackoffTo
<1> QED
  BY <1>1, <1>4, <1>5

(* So Backoff satisfies its recursion.                                     *)
LEMMA BackoffRec == Backoff = [n \in Nat |-> IF n = 0 THEN 1 ELSE 2 * Backoff[n - 1]]
<1> DEFINE upTo(n) == CHOOSE f : IsBackoffTo(n, f)
           F == [n \in Nat |-> upTo(n)[n]]
<1>1. \A n \in Nat : IsBackoffTo(n, upTo(n))
  BY BackoffTo
<1> HIDE DEF upTo
<1>2. \A n \in Nat : n # 0 => upTo(n)[n] = 2 * upTo(n - 1)[n - 1]
  <2> SUFFICES ASSUME NEW n \in Nat, n # 0 PROVE upTo(n)[n] = 2 * upTo(n - 1)[n - 1]
    OBVIOUS
  <2>1. n - 1 \in Nat /\ n - 1 \in 0 .. n /\ n - 1 \in 0 .. n - 1 /\ n \in 1 .. n
    OBVIOUS
  <2>2. upTo(n)[n - 1] = upTo(n - 1)[n - 1]
    BY <1>1, <2>1, BackoffAgree
  <2> QED
    BY <1>1, <2>1, <2>2 DEF IsBackoffTo
<1>3. upTo(0)[0] = 1
  BY <1>1 DEF IsBackoffTo
<1>4. F = [n \in Nat |-> IF n = 0 THEN 1 ELSE 2 * F[n - 1]]
  BY <1>2, <1>3
<1>5. \E f : f = [n \in Nat |-> IF n = 0 THEN 1 ELSE 2 * f[n - 1]]
  BY <1>4
<1> QED
  BY <1>5 DEF Backoff

(* The delays double, from one base delay on. *)
LEMMA BackoffDoubles ==
    /\ Backoff[0] = 1
    /\ \A n \in Nat : Backoff[n] \in Nat \ {0} /\ Backoff[n + 1] = 2 * Backoff[n]
<1>1. Backoff[0] = 1 /\ \A n \in Nat : Backoff[n + 1] = 2 * Backoff[n]
  BY BackoffRec
<1> DEFINE S == {n \in Nat : Backoff[n] \notin Nat \ {0}}
<1> SUFFICES ASSUME S # {} PROVE FALSE
  BY <1>1
<1>2. PICK k \in S : \A j \in S : k <= j
  <2> HIDE DEF S
  <2>1. S \in SUBSET Nat
    BY DEF S
  <2> QED
    BY <2>1, LeastElement
<1>3. k # 0 /\ k - 1 \in Nat
  BY <1>1, <1>2
<1>4. Backoff[k - 1] \in Nat \ {0}
  BY <1>2, <1>3
<1>5. Backoff[k] = 2 * Backoff[k - 1]
  BY <1>1, <1>3
<1> QED
  BY <1>2, <1>4, <1>5

(* A delay after more attempts is not the shorter one. *)
LEMMA BackoffGrows ==
    ASSUME NEW m \in Nat, NEW n \in Nat, m <= n
    PROVE  Backoff[m] <= Backoff[n]
<1> DEFINE S == {k \in Nat : m <= k /\ ~(Backoff[m] <= Backoff[k])}
<1> SUFFICES ASSUME S # {} PROVE FALSE
  OBVIOUS
<1>1. PICK k \in S : \A j \in S : k <= j
  <2> HIDE DEF S
  <2>1. S \in SUBSET Nat
    BY DEF S
  <2> QED
    BY <2>1, LeastElement
<1>2. k # m /\ k - 1 \in Nat /\ k - 1 >= m
  BY <1>1, BackoffDoubles
<1>3. Backoff[m] <= Backoff[k - 1]
  BY <1>1, <1>2
<1>4. Backoff[k] = 2 * Backoff[k - 1] /\ Backoff[k - 1] \in Nat /\ Backoff[m] \in Nat
  BY <1>2, BackoffDoubles
<1> QED
  BY <1>1, <1>3, <1>4

-------------------------------------------------------------------------------
(* Where a call is in its loop tells how often it has failed, that each    *)
(* failure but the last was transient, and how long it has slept.          *)
Retrying(c) ==
    /\ delay[c] = Backoff[attempt[c]] - 1
    /\ attempt[c] > 0 => attempt[c] < limit[c] /\ exc[c] \in Transient

Bounded(c) ==
    /\ attempt[c] <= limit[c]
    /\ pc[c] \in {"fetch", "use"} => attempt[c] < limit[c]
    /\ pc[c] \in {"loop", "fetch", "use"} => Retrying(c)
    /\ pc[c] \in {"create", "raise"} => exc[c] \in Errors
    /\ limit[c] > 0 => delay[c] <= Backoff[limit[c] - 1] - 1

RetryInv ==
    /\ TypeOK
    /\ IsFiniteSet(letters)
    /\ \A c \in Callers : Bounded(c)

(* A step of one call leaves the others alone. *)
OnlyCall(c) ==
    \A d \in Callers \ {c} :
        /\ pc'[d] = pc[d] /\ limit'[d] = limit[d] /\ attempt'[d] = attempt[d]
        /\ exc'[d] = exc[d] /\ delay'[d] = delay[d]

(* A step of one call leaves the bounds of the others.                     *)
LEMMA OthersBounded ==
    ASSUME RetryInv, NEW c \in Callers, OnlyCall(c), Bounded(c)'
    PROVE  \A d \in Callers : Bounded(d)'
<1>1. ASSUME NEW d \in Callers, d # c PROVE Bounded(d)'
  BY <1>1 DEF RetryInv, OnlyCall, Bounded, Retrying
<1> QED
  BY <1>1

(* No attempt is made and nothing slept at first.                          *)
LEMMA InitiallyBounded == Init => RetryInv
<1> SUFFICES ASSUME Init PROVE RetryInv
  OBVIOUS
<1>1. TypeOK
  BY AttemptsAssumption DEF Init, TypeOK
<1>2. IsFiniteSet(letters)
  BY FS_EmptySet DEF Init
<1>3. ASSUME NEW c \in Callers PROVE Bounded(c)
  <2>1. /\ limit[c] \in Nat /\ attempt[c] = 0 /\ delay[c] = 0 /\ pc[c] = "loop"
    BY <1>3, AttemptsAssumption DEF Init
  <2>2. limit[c] > 0 => limit[c] - 1 \in Nat
    BY <2>1
  <2> QED
    BY <2>1, <2>2, BackoffDoubles DEF Bounded, Retrying
<1> QED
  BY <1>1, <1>2, <1>3 DEF RetryInv

(* A failed attempt: the sleep before the next one is as long as all those *)
(* before it and one more unit, and the last failure is not slept on.      *)
LEMMA FailBounded ==
    ASSUME RetryInv, NEW c \in Callers, NEW e \in Errors, pc[c] \in {"fetch", "use"}, Fail(c, e),
           UNCHANGED <<version, letters, request, limit, result, crashes, since>>
    PROVE  RetryInv'
<1>1. /\ TypeOK /\ Bounded(c) /\ Retrying(c)
      /\ limit[c] \in Nat /\ attempt[c] \in Nat /\ delay[c] \in Nat /\ attempt[c] < limit[c]
  BY DEF RetryInv, Bounded, TypeOK
<1>2. /\ exc' = [exc EXCEPT ![c] = e]
      /\ credential' = [credential EXCEPT ![c] = -1]
      /\ attempt' = [attempt EXCEPT ![c] = attempt[c] + 1]
  BY DEF Fail
<1>3. /\ Backoff[attempt[c]] \in Nat /\ Backoff[attempt[c] + 1] = 2 * Backoff[attempt[c]]
      /\ limit[c] - 1 \in Nat /\ attempt[c] + 1 \in Nat
  BY <1>1, BackoffDoubles
<1>4. CASE e \notin Transient \/ attempt[c] = limit[c] - 1
  <2>1. pc' = [pc EXCEPT ![c] = "create"] /\ delay' = delay
    BY <1>4 DEF Fail, Goto
  <2>2. TypeOK'
    BY <1>1, <1>2, <2>1 DEF TypeOK
  <2>3. OnlyCall(c)
    BY <1>1, <1>2, <2>1 DEF OnlyCall, TypeOK
  <2>4. /\ pc'[c] = "create" /\ exc'[c] = e /\ attempt'[c] = attempt[c] + 1 /\ limit' = limit
    BY <1>1, <1>2, <2>1 DEF TypeOK
  <2>5. Bounded(c)'
    BY <1>1, <2>1, <2>4 DEF Bounded
  <2> QED
    BY <2>2, <2>3, <2>5, OthersBounded DEF RetryInv
<1>5. CASE ~(e \notin Transient \/ attempt[c] = limit[c] - 1)
  <2>1. /\ pc' = [pc EXCEPT ![c] = "loop"]
        /\ delay' = [delay EXCEPT ![c] = delay[c] + Backoff[attempt[c]]]
    BY <1>5 DEF Fail, Goto
  <2>2. TypeOK'
    BY <1>1, <1>2, <1>3, <2>1 DEF TypeOK
  <2>3. OnlyCall(c)
    BY <1>1, <1>2, <2>1 DEF OnlyCall, TypeOK
  <2>4. /\ pc'[c] = "loop" /\ exc'[c] = e /\ attempt'[c] = attempt[c] + 1 /\ limit' = limit
        /\ delay'[c] = delay[c] + Backoff[attempt[c]]
    BY <1>1, <1>2, <2>1 DEF TypeOK
  <2>5. attempt'[c] < limit'[c] /\ delay'[c] = Backoff[attempt'[c]] - 1
    BY <1>1, <1>3, <1>5, <2>4 DEF Retrying
  <2>6. Backoff[attempt[c] + 1] <= Backoff[limit[c] - 1]
    BY <1>1, <1>3, <2>4, <2>5, BackoffGrows
  <2>7. Backoff[limit[c] - 1] \in Nat
    BY <1>3, BackoffDoubles
  <2>8. delay'[c] <= Backoff[limit'[c] - 1] - 1
    BY <1>3, <2>4, <2>5, <2>6, <2>7
  <2>9. exc'[c] \in Transient
    BY <1>5, <2>4
  <2>10. Bounded(c)'
    BY <1>1, <2>4, <2>5, <2>8, <2>9 DEF Bounded, Retrying
  <2> QED
    BY <2>2, <2>3, <2>10, OthersBounded DEF RetryInv
<1> QED
  BY <1>4, <1>5

(* A step that counts, sleeps and catches nothing. *)
LEMMA KeepsBounded ==
    ASSUME RetryInv, NEW c \in Callers, NEW place, pc' = [pc EXCEPT ![c] = place],
           UNCHANGED <<limit, attempt, exc, delay>>,
           \/ place = "fetch" /\ pc[c] = "loop" /\ attempt[c] < limit[c]
           \/ place = "use" /\ pc[c] = "fetch"
           \/ place = "raise" /\ pc[c] = "create"
           \/ place = "done",
           TypeOK', IsFiniteSet(letters')
    PROVE  RetryInv'
<1>1. OnlyCall(c) /\ pc'[c] = place
  BY DEF OnlyCall, RetryInv, TypeOK
<1>2. Bounded(c)'
  BY <1>1 DEF RetryInv, Bounded, Retrying
<1> QED
  BY <1>1, <1>2, OthersBounded DEF RetryInv

(* Every step of a call keeps the bounds.                                  *)
LEMMA StepBounded ==
    ASSUME RetryInv, NEW c \in Callers, Call(c) \/ Crash(c)
    PROVE  RetryInv'
<1> USE DEF RetryInv
<1>1. CASE Loop(c)
  <2>1. \/ attempt[c] < limit[c] /\ pc' = [pc EXCEPT ![c] = "fetch"] /\ UNCHANGED <<result, credential>>
        \/ /\ pc' = [pc EXCEPT ![c] = "done"] /\ result' = [result EXCEPT ![c] = "AssertionError"]
           /\ credential' = [credential EXCEPT ![c] = -1]
    BY <1>1 DEF Loop, End, Goto
  <2>2. /\ pc[c] = "loop" /\ since' = [since EXCEPT ![c] = version]
        /\ UNCHANGED <<version, letters, request, limit, attempt, exc, delay, crashes>>
    BY <1>1 DEF Loop
  <2>3. TypeOK'
    BY <2>1, <2>2 DEF TypeOK
  <2> QED
    BY <2>1, <2>2, <2>3, KeepsBounded
<1>2. CASE Fetch(c) /\ \E v \in Fetched : credential' = [credential EXCEPT ![c] = v] /\ Goto(c, "use")
                              /\ UNCHANGED <<attempt, exc, delay>>
  <2>1. /\ credential' = [credential EXCEPT ![c] = version] /\ pc' = [pc EXCEPT ![c] = "use"]
        /\ pc[c] = "fetch"
        /\ UNCHANGED <<version, letters, request, limit, attempt, exc, delay, result, crashes, since>>
    BY <1>2 DEF Fetch, Fetched, Goto
  <2>2. TypeOK'
    BY <2>1 DEF TypeOK
  <2> QED
    BY <2>1, <2>2, KeepsBounded
<1>3. CASE Fetch(c) /\ \E e \in FetchErrors(c) : Fail(c, e)
  <2>1. PICK e \in FetchErrors(c) : Fail(c, e)
    BY <1>3
  <2>2. request[c] \in Requests
    BY DEF TypeOK
  <2>3. e \in Errors
    BY <2>1, <2>2 DEF FetchErrors, Errors, CredentialErrors, Requests
  <2>4. pc[c] = "fetch" /\ UNCHANGED <<version, letters, request, limit, result, crashes, since>>
    BY <1>3 DEF Fetch
  <2> QED
    BY <2>1, <2>3, <2>4, FailBounded
<1>4. CASE UseTool(c) /\ (Fail(c, "Unauthorized") \/ Fail(c, "Timeout")) /\ UNCHANGED result
  <2>1. "Unauthorized" \in Errors /\ "Timeout" \in Errors
    BY DEF Errors, ToolErrors
  <2>2. pc[c] = "use" /\ UNCHANGED <<version, letters, request, limit, crashes, since>>
    BY <1>4 DEF UseTool
  <2> QED
    BY <1>4, <2>1, <2>2, FailBounded
<1>5. CASE \/ UseTool(c) /\ End(c, "value") /\ UNCHANGED <<attempt, exc, delay>>
           \/ Crash(c)
           \/ CreateLetter(c) /\ UNCHANGED letters
                 /\ (End(c, "ValidationError") \/ End(c, "PutFailed"))
           \/ Raise(c)
  <2>1. /\ pc' = [pc EXCEPT ![c] = "done"] /\ credential' = [credential EXCEPT ![c] = -1]
        /\ \E how \in {"value", "crashed", "ValidationError", "PutFailed"} \cup Errors :
              result' = [result EXCEPT ![c] = how]
    BY <1>5 DEF UseTool, Crash, Raise, End, Goto, Bounded
  <2>2. crashes' \in 0 .. MaxCrashes
    BY <1>5, AttemptsAssumption DEF UseTool, Crash, CreateLetter, Raise, TypeOK
  <2>3. UNCHANGED <<version, letters, request, limit, attempt, exc, delay, since>>
    BY <1>5 DEF UseTool, Crash, CreateLetter, Raise
  <2>4. TypeOK'
    BY <2>1, <2>2, <2>3 DEF TypeOK
  <2> QED
    BY <2>1, <2>3, <2>4, KeepsBounded
<1>6. CASE /\ CreateLetter(c) /\ exc[c] \notin NoMessage /\ letters' = letters \cup {LetterFor(c)}
           /\ \/ Goto(c, "raise") /\ UNCHANGED <<credential, result>>
              \/ End(c, "PutFailed")
  <2>1. /\ \E place \in {"raise", "done"} : pc' = [pc EXCEPT ![c] = place]
        /\ credential' \in {credential, [credential EXCEPT ![c] = -1]}
        /\ result' \in {result, [result EXCEPT ![c] = "PutFailed"]} /\ pc[c] = "create"
        /\ UNCHANGED <<version, request, limit, attempt, exc, delay, crashes, since>>
    BY <1>6 DEF CreateLetter, End, Goto
  <2>2. exc[c] \in Errors \ NoMessage /\ limit[c] \in Nat
    BY <1>6, <2>1 DEF Bounded, TypeOK
  <2>3. Cardinality(letters) \in Nat /\ IsFiniteSet(letters')
    BY <1>6, FS_CardinalityType, FS_AddElement
  <2>4. letters' \subseteq
          [id : Nat, caller : Callers, error_detail : Errors \ NoMessage, retry_count : Nat]
    BY <1>6, <2>2, <2>3 DEF TypeOK, LetterFor
  <2>5. TypeOK'
    BY <2>1, <2>2, <2>4 DEF TypeOK
  <2> QED
    BY <2>1, <2>3, <2>5, KeepsBounded
<1> QED
  BY <1>1, <1>2, <1>3, <1>4, <1>5, <1>6 DEF Call, Fetch, UseTool, CreateLetter

(* They hold in every reachable state.                                     *)
LEMMA RetryInvHolds == Spec => []RetryInv
<1>1. RetryInv /\ UNCHANGED vars => RetryInv'
  BY DEF RetryInv, TypeOK, Bounded, Retrying, vars, call
<1>2. RetryInv /\ Rotate => RetryInv'
  <2> SUFFICES ASSUME RetryInv, Rotate PROVE RetryInv'
    OBVIOUS
  <2>1. TypeOK'
    BY AttemptsAssumption DEF RetryInv, Rotate, TypeOK, call
  <2>2. \A c \in Callers : Bounded(c)'
    BY DEF RetryInv, Rotate, Bounded, Retrying, call
  <2> QED
    BY <2>1, <2>2 DEF RetryInv, Rotate
<1>3. RetryInv /\ Next => RetryInv'
  BY <1>2, StepBounded DEF Next
<1> QED
  BY InitiallyBounded, <1>1, <1>3, PTL DEF Spec

(* Every variable keeps to its type; a dead letter has a detail.           *)
THEOREM CallsWellTyped == Spec => []TypeOK
<1>1. RetryInv => TypeOK
  BY DEF RetryInv
<1> QED
  BY <1>1, RetryInvHolds, PTL

(* No more attempts than max_attempts, no more sleep than the doubling     *)
(* delays between them, and none of them after a permanent error.          *)
THEOREM RetriesAreBounded == Spec => []RetriesBounded
<1>1. RetryInv => RetriesBounded
  BY DEF RetryInv, RetriesBounded, Bounded, Retrying
<1> QED
  BY <1>1, RetryInvHolds, PTL
===============================================================================
