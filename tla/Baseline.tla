------------------------------ MODULE Baseline ------------------------------
(***************************************************************************)
(* Bringing a NeoX ONT back to its baseline (tests/support/ont_baseline.py *)
(* with rest_polling.py and the CLI waits of ont_cli_status.py): the       *)
(* baseline is POSTed once, then REST is polled in one window that is cut  *)
(* into chunks, each with a login of its own, until enough consecutive     *)
(* samples match; the CLI is read afterwards whatever REST said.           *)
(* One unit of time is the polling interval (15 s).  The EMS may answer    *)
(* anything at any time and a call takes up to CallTime units.             *)
(***************************************************************************)
EXTENDS Integers

CONSTANTS
  Window,     \* ONT_BASELINE_TIMEOUT_SECONDS times the wait scale
  Chunk,      \* ONT_BASELINE_SESSION_CHUNK_SECONDS
  Stable,     \* ONT_BASELINE_STABLE_SAMPLES
  Retries,    \* ONT_BASELINE_IMMEDIATE_RETRIES
  CliTime,    \* ONT_BASELINE_CLI_TIMEOUT_SECONDS
  CallTime    \* bound: the longest a login or a request takes

BaselineAssumption ==
  /\ {Window, Chunk, Stable, CliTime} \subseteq Nat \ {0}
  /\ {Retries, CallTime} \subseteq Nat

VARIABLES
  pc,         \* where the restore is
  now,        \* the monotonic clock; the restore starts at 0
  begun,      \* chunk_started
  chunk,      \* the time this chunk got
  login,      \* when the session of this chunk was opened
  hits,       \* stable_hits of the wait that runs
  retries,    \* immediate_retries
  errors,     \* what went wrong: a set of "post", "rest", "cli"
  cliEnd,     \* the deadline of the CLI wait that runs
  failures    \* history: logins and polls that failed at once

vars == <<pc, now, begun, chunk, login, hits, retries, errors, cliEnd, failures>>

Init ==
  /\ pc = "post" /\ now = 0 /\ begun = 0 /\ chunk = 0 /\ login = 0
  /\ hits = 0 /\ retries = 0 /\ errors = {} /\ cliEnd = 0 /\ failures = 0

Duration == 0..CallTime

(* POST the baseline on a session of its own; a POST that fails or raises
   skips REST. *)
Post ==
  /\ pc = "post"
  /\ \E d \in Duration, ok \in BOOLEAN :
       /\ now' = now + d
       /\ pc' = IF ok THEN "chunk" ELSE "cli"
       /\ errors' = IF ok THEN {} ELSE {"post"}
  /\ UNCHANGED <<begun, chunk, login, hits, retries, cliEnd, failures>>

(* What is left of the window, but no more than a session may carry. *)
Left      == IF Window > now THEN Window - now ELSE 0
NextChunkWhole == Left
NextChunk == IF Left > Chunk THEN Chunk ELSE Left

(* The top of the loop: a fresh login, then the wait gets the chunk. *)
OpenChunk ==
  /\ pc = "chunk"
  /\ begun' = now /\ chunk' = NextChunk /\ hits' = 0
  /\ \E d \in Duration, ok \in BOOLEAN :
       /\ now' = now + d
       /\ login' = IF ok THEN now + d ELSE login
       /\ pc' = IF ok THEN "poll" ELSE "caught"
       /\ failures' = IF ok THEN failures ELSE failures + 1
  /\ UNCHANGED <<retries, errors, cliEnd>>

WaitEnd == login + chunk

(* One GET: it matches the baseline, it does not (or is refused), or the wait
   ends at once because authorization was lost or the call raised.  A wait
   that is not over sleeps for one interval. *)
Poll ==
  /\ pc = "poll" /\ now <= WaitEnd
  /\ \E d \in Duration, answer \in {"match", "other", "raise"} :
       LET at == now + d
           h  == IF answer = "match" THEN hits + 1 ELSE 0
       IN /\ hits' = h
          /\ IF answer = "raise" THEN pc' = "caught" /\ now' = at
             ELSE IF h >= Stable THEN pc' = "cli" /\ now' = at
             ELSE IF at >= WaitEnd THEN pc' = "caught" /\ now' = at
             ELSE pc' = "poll" /\ now' = at + 1
          /\ failures' = IF answer = "raise" THEN failures + 1 ELSE failures
  /\ UNCHANGED <<begun, chunk, login, retries, errors, cliEnd>>

UsedUpLate == now > begun + chunk
UsedUp     == now >= begun + chunk

(* The handler around one chunk: the window is over; the chunk's time was not
   used, which a few times may happen; or the next chunk follows. *)
Caught ==
  /\ pc = "caught"
  /\ LET over == now >= Window
         n    == IF over \/ UsedUp THEN retries ELSE retries + 1
         stop == over \/ n > Retries
     IN /\ retries' = n
        /\ errors' = IF stop THEN errors \union {"rest"} ELSE errors
        /\ pc' = IF stop THEN "cli" ELSE "chunk"
  /\ UNCHANGED <<now, begun, chunk, login, hits, cliEnd, failures>>

(* Only with verify_cli; wait_for_ont_cli_is gets a deadline of its own. *)
EnterCli ==
  /\ pc = "cli"
  /\ hits' = 0 /\ cliEnd' = now + CliTime
  /\ pc' \in {"is", "done"}
  /\ UNCHANGED <<now, begun, chunk, login, retries, errors, failures>>

CliFails == pc' = "done" /\ errors' = errors \union {"cli"}

(* One reading over SSH; one that raises ends the CLI part. *)
ReadCli ==
  /\ pc \in {"is", "tokens"}
  /\ \E d \in Duration, answer \in {"match", "other", "raise"} :
       LET at   == now + d
           h    == IF answer = "match" THEN hits + 1 ELSE 0
           need == IF pc = "is" THEN 1 ELSE Stable
       IN IF answer = "raise" \/ (h < need /\ at >= cliEnd)
          THEN CliFails /\ now' = at /\ hits' = h /\ UNCHANGED cliEnd
          ELSE /\ UNCHANGED errors
               /\ IF h < need
                  THEN now' = at + 1 /\ hits' = h /\ UNCHANGED <<pc, cliEnd>>
                  ELSE /\ now' = at /\ hits' = 0
                       /\ pc' = IF pc = "is" THEN "tokens" ELSE "done"
                       /\ cliEnd' = IF pc = "is" THEN at + CliTime ELSE cliEnd
  /\ UNCHANGED <<begun, chunk, login, retries, failures>>

Done == pc = "done"

Next == Post \/ OpenChunk \/ Poll \/ Caught \/ EnterCli \/ ReadCli

(* No thread shares the restore: as long as it can go on, it does. *)
Spec == Init /\ [][Next]_vars /\ WF_vars(Next)
-----------------------------------------------------------------------------
TypeOK ==
  /\ pc \in {"post", "chunk", "poll", "caught", "cli", "is", "tokens", "done"}
  /\ {now, begun, login, hits, retries, cliEnd, failures} \subseteq Nat
  /\ chunk \in 0..Chunk
  /\ errors \subseteq {"post", "rest", "cli"}

(* Hiccups do not cost the baseline: while no more logins and polls failed at
   once than the restore may retry, the REST part gives up only when its
   window is over.  A chunk that spent its time must never be counted as an
   immediate error (ont_baseline.py:112-122). *)
PatientUnderHiccups ==
  "rest" \in errors /\ failures <= Retries => now >= Window

(* No poll is sent on a session that is older than a chunk, so the EMS's
   session lifetime never ends a sample run (ont_baseline.py:5, 31). *)
SessionsYoung == pc = "poll" => now <= login + Chunk

(* The window holds: the last chunk overruns it by no more than its login and
   its last request (ont_baseline.py:90). *)
WindowKept == pc \in {"poll", "caught"} => now <= (IF Window > begun THEN Window ELSE begun) + 2 * CallTime

(* Every restore comes to a verdict. *)
Ends == <>Done
=============================================================================
