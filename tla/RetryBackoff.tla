----------------------------- MODULE RetryBackoff -----------------------------
(***************************************************************************)
(* retry_with_backoff around a tool call that fetches its credential with  *)
(* CredentialsClient, and the dead letter it leaves when it gives up.      *)
(* Nothing deployed calls them yet: a caller here is a process that does   *)
(* what they are written for, and the tool behind the call is external.    *)
(*                                                                         *)
(* A secret is told by its version; it is rotated at any time.  A          *)
(* CredentialError carries the secret's name and a reason, never a value,  *)
(* so an exception is told by its reason.  Delays are counted in units of  *)
(* base_delay_seconds.                                                     *)
(***************************************************************************)
EXTENDS Integers, FiniteSets

CONSTANTS
    Callers,       \* processes that make one call each
    MaxAttempts,   \* bound: the largest max_attempts
    MaxRotations,  \* bound: rotations of the secret
    MaxCrashes     \* bound: callers that die

ASSUME AttemptsAssumption ==
    MaxAttempts \in Nat /\ MaxRotations \in Nat /\ MaxCrashes \in Nat

(* CredentialNotConfiguredError, and the reasons of a                      *)
(* CredentialRetrievalError: what the service answered, a secret without a *)
(* SecretString, a SecretString that is no JSON object.                    *)
CredentialErrors == {"NotConfigured", "Throttled", "AccessDenied", "NoSecretString", "NotAnObject"}

(* The tool refuses a credential, or times out without a message. *)
ToolErrors == {"Unauthorized", "Timeout"}
Errors == CredentialErrors \cup ToolErrors

(* is_transient, the caller's: a refused credential may have been rotated. *)
Transient == {"Throttled", "Unauthorized", "Timeout"}

(* str(exc) == "" *)
NoMessage == {"Timeout"}

(* What a caller asks CredentialsClient for: a credential by its logical   *)
(* name, which may have no entry in secret_name_map, or a secret's fields. *)
Requests == {"credential", "unmapped", "fields"}

VARIABLES
    version,     \* of the secret in Secrets Manager
    letters,     \* DeadLetterRecords
    pc,          \* where each call stands
    request,     \* what it asks the client for
    limit,       \* its max_attempts
    attempt,     \* loop variable: attempts that ended
    credential,  \* version at hand, -1 for none
    exc,         \* last_exc
    delay,       \* slept so far
    result,      \* how the call ended: "value", or what it raised
    crashes

(* History: the version at the beginning of the current attempt. *)
VARIABLE since

call == <<pc, request, limit, attempt, credential, exc, delay, result>>
vars == <<version, letters, call, crashes, since>>

Init ==
    /\ version    = 0
    /\ letters    = {}
    /\ pc         = [c \in Callers |-> "loop"]
    /\ request    \in [Callers -> Requests]
    /\ limit      \in [Callers -> 0 .. MaxAttempts]
    /\ attempt    = [c \in Callers |-> 0]
    /\ credential = [c \in Callers |-> -1]
    /\ exc        = [c \in Callers |-> "none"]
    /\ delay      = [c \in Callers |-> 0]
    /\ result     = [c \in Callers |-> "none"]
    /\ crashes    = 0
    /\ since      = [c \in Callers |-> 0]

(* 2 ** attempt. *)
Backoff[n \in Nat] == IF n = 0 THEN 1 ELSE 2 * Backoff[n - 1]

Goto(c, place) == pc' = [pc EXCEPT ![c] = place]

End(c, how) ==
    /\ Goto(c, "done")
    /\ result' = [result EXCEPT ![c] = how]
    /\ credential' = [credential EXCEPT ![c] = -1]

-------------------------------------------------------------------------------
(* for attempt in range(max_attempts): the next attempt, or the end of a   *)
(* loop that was never entered (assert last_exc is not None).              *)
Loop(c) ==
    /\ pc[c] = "loop"
    /\ IF attempt[c] < limit[c]
         THEN Goto(c, "fetch") /\ UNCHANGED <<result, credential>>
         ELSE End(c, "AssertionError")
    /\ since' = [since EXCEPT ![c] = version]
    /\ UNCHANGED <<version, letters, request, limit, attempt, exc, delay, crashes>>

(* Seeded fault: the test for the last attempt is missing. *)
FailAlwaysSleeps(c, e) ==
    /\ exc' = [exc EXCEPT ![c] = e]
    /\ credential' = [credential EXCEPT ![c] = -1]
    /\ attempt' = [attempt EXCEPT ![c] = @ + 1]
    /\ IF e \notin Transient
         THEN Goto(c, "create") /\ UNCHANGED delay
         ELSE /\ delay' = [delay EXCEPT ![c] = @ + Backoff[attempt[c]]]
              /\ Goto(c, IF attempt[c] = limit[c] - 1 THEN "create" ELSE "loop")

(* Seeded fault: a retried attempt is not counted. *)
FailUncounted(c, e) ==
    /\ exc' = [exc EXCEPT ![c] = e]
    /\ credential' = [credential EXCEPT ![c] = -1]
    /\ IF e \notin Transient \/ attempt[c] = limit[c] - 1
         THEN Goto(c, "create") /\ UNCHANGED <<attempt, delay>>
         ELSE Goto(c, "loop") /\ UNCHANGED <<attempt, delay>>

(* except Exception: a permanent error or the last attempt breaks the      *)
(* loop, any other sleeps and goes round.                                  *)
Fail(c, e) ==
    /\ exc' = [exc EXCEPT ![c] = e]
    /\ credential' = [credential EXCEPT ![c] = -1]
    /\ attempt' = [attempt EXCEPT ![c] = @ + 1]
    /\ IF e \notin Transient \/ attempt[c] = limit[c] - 1
         THEN Goto(c, "create") /\ UNCHANGED delay
         ELSE Goto(c, "loop") /\ delay' = [delay EXCEPT ![c] = @ + Backoff[attempt[c]]]

(* Seeded fault: the client keeps the value it has fetched first. *)
FetchedOnce == {0}

(* _fetch_raw_secret_string asks Secrets Manager on every call. *)
Fetched == {version}

(* The reasons get_secret may fail for, and get_secret_fields on top.      *)
FetchErrors(c) ==
    CASE request[c] = "unmapped"   -> {"NotConfigured"}
      [] request[c] = "credential" -> {"Throttled", "AccessDenied", "NoSecretString"}
      [] request[c] = "fields"     -> CredentialErrors \ {"NotConfigured"}

(* get_credential or get_secret_fields. *)
Fetch(c) ==
    /\ pc[c] = "fetch"
    /\ \/ /\ request[c] # "unmapped"
          /\ \E v \in Fetched : credential' = [credential EXCEPT ![c] = v]
          /\ Goto(c, "use")
          /\ UNCHANGED <<attempt, exc, delay>>
       \/ \E e \in FetchErrors(c) : Fail(c, e)
    /\ UNCHANGED <<version, letters, request, limit, result, crashes, since>>

(* The tool takes the current credential and refuses an older one. *)
UseTool(c) ==
    /\ pc[c] = "use"
    /\ \/ /\ credential[c] = version
          /\ End(c, "value")
          /\ UNCHANGED <<attempt, exc, delay>>
       \/ credential[c] # version /\ Fail(c, "Unauthorized") /\ UNCHANGED result
       \/ Fail(c, "Timeout") /\ UNCHANGED result
    /\ UNCHANGED <<version, letters, request, limit, crashes, since>>

LetterFor(c) ==
    [id |-> Cardinality(letters), caller |-> c, error_detail |-> exc[c], retry_count |-> limit[c]]

(* Seeded fault: an exception the record refuses is raised without one. *)
CreateLetterNot(c) ==
    /\ pc[c] = "create"
    /\ IF exc[c] \in NoMessage THEN UNCHANGED letters ELSE letters' = letters \cup {LetterFor(c)}
    /\ Goto(c, "raise")
    /\ UNCHANGED <<version, request, limit, attempt, credential, exc, delay, result, crashes, since>>

(* Seeded fault: the record takes any string as its detail. *)
CreateLetterUnvalidated(c) ==
    /\ pc[c] = "create"
    /\ letters' = letters \cup {LetterFor(c)}
    /\ Goto(c, "raise")
    /\ UNCHANGED <<version, request, limit, attempt, credential, exc, delay, result, crashes, since>>

(* DeadLetterRecordRepository.create under a fresh id.  error_detail must  *)
(* not be empty: an exception without a message is replaced by pydantic's, *)
(* and nothing is stored.  Any other is replaced by the put's own when the *)
(* put fails, and then the letter is there if only the answer was lost.    *)
CreateLetter(c) ==
    /\ pc[c] = "create"
    /\ \/ /\ exc[c] \in NoMessage
          /\ End(c, "ValidationError")
          /\ UNCHANGED letters
       \/ /\ exc[c] \notin NoMessage
          /\ letters' = letters \cup {LetterFor(c)}
          /\ Goto(c, "raise")
          /\ UNCHANGED <<credential, result>>
       \/ /\ exc[c] \notin NoMessage
          /\ letters' \in {letters, letters \cup {LetterFor(c)}}
          /\ End(c, "PutFailed")
    /\ UNCHANGED <<version, request, limit, attempt, exc, delay, crashes, since>>

(* raise last_exc, with its letter stored. *)
Raise(c) ==
    /\ pc[c] = "raise"
    /\ End(c, exc[c])
    /\ UNCHANGED <<version, letters, request, limit, attempt, exc, delay, crashes, since>>

(* The process dies, also between the letter and the raise. *)
Crash(c) ==
    /\ pc[c] # "done" /\ crashes < MaxCrashes
    /\ crashes' = crashes + 1
    /\ End(c, "crashed")
    /\ UNCHANGED <<version, letters, request, limit, attempt, exc, delay, since>>

Rotate ==
    /\ version < MaxRotations
    /\ version' = version + 1
    /\ UNCHANGED <<letters, call, crashes, since>>

-------------------------------------------------------------------------------
Call(c) == Loop(c) \/ Fetch(c) \/ UseTool(c) \/ CreateLetter(c) \/ Raise(c)

Next == Rotate \/ \E c \in Callers : Call(c) \/ Crash(c)

Spec == Init /\ [][Next]_vars

(* A call that has begun goes on; rotations and deaths are never owed. *)
FairSpec == Spec /\ \A c \in Callers : WF_vars(Call(c))
-------------------------------------------------------------------------------
(* Every variable keeps to its type. *)
TypeOK ==
    /\ version \in 0 .. MaxRotations
    /\ letters \subseteq [id : Nat, caller : Callers, error_detail : Errors \ NoMessage, retry_count : Nat]
    /\ pc \in [Callers -> {"loop", "fetch", "use", "create", "raise", "done"}]
    /\ request \in [Callers -> Requests]
    /\ limit \in [Callers -> 0 .. MaxAttempts]
    /\ attempt \in [Callers -> Nat]
    /\ credential \in [Callers -> {-1} \cup 0 .. MaxRotations]
    /\ exc \in [Callers -> Errors \cup {"none"}]
    /\ delay \in [Callers -> Nat]
    /\ result \in [Callers -> Errors \cup
          {"none", "value", "crashed", "AssertionError", "ValidationError", "PutFailed"}]
    /\ crashes \in 0 .. MaxCrashes
    /\ since \in [Callers -> 0 .. MaxRotations]

LettersOf(c) == {l \in letters : l.caller = c}

(* The last error was permanent, or the attempts are used up. *)
GaveUp(c) == exc[c] \in Errors /\ (exc[c] \notin Transient \/ attempt[c] = limit[c])

(* "SHALL NOT silently drop the failure" (Requirement 8.3): a call that    *)
(* raises its own exception has left a dead letter.  And a dead letter is  *)
(* nobody's that did not fail: it is the only one of a call that gave up   *)
(* on that very error, and that then raised it, lost the put's answer or   *)
(* died.  It does not say that every call that gives up leaves one: an     *)
(* exception without a message is replaced by a ValidationError and leaves *)
(* none, nor does one whose put failed.                                    *)
FailureRecorded ==
    \A c \in Callers :
        /\ result[c] \in Errors => LettersOf(c) # {}
        /\ \A l \in LettersOf(c) :
              /\ LettersOf(c) = {l} /\ l.error_detail = exc[c]
              /\ GaveUp(c)
              /\ result[c] \in {"none", "PutFailed", "crashed", exc[c]}

(* Retries are bounded: no more attempts than max_attempts, and never more *)
(* sleep than the doubling delays between them, none after the last one;   *)
(* a permanent error is never retried.                                     *)
RetriesBounded ==
    \A c \in Callers :
        /\ attempt[c] <= limit[c]
        /\ limit[c] > 0 => delay[c] <= Backoff[limit[c] - 1] - 1
        /\ pc[c] = "use" /\ attempt[c] > 0 => exc[c] \in Transient

(* "Injected at tool-call time only" (Requirement 11.2): a credential that *)
(* is about to be used is never older than the attempt that uses it, so an *)
(* attempt after a rotation does not fail for the rotation before it.      *)
CredentialFresh ==
    \A c \in Callers : pc[c] = "use" => credential[c] \in since[c] .. version

(* Every call ends, whatever fails. *)
CallEnds == \A c \in Callers : <>(pc[c] = "done")
===============================================================================
