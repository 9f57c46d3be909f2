------------------------------- MODULE S3Calls -------------------------------
(***************************************************************************)
(* Calls to the object storage (infrastructure/s3): the operations of the  *)
(* service, and the decorator that repeats them.                           *)
(*                                                                         *)
(* One attempt ends in "ok", "missing" (a 404), "refused" (another answer  *)
(* that is not worth a repetition), "busy" (a timeout, a lost connection,  *)
(* 429 or 5xx) or "broken" (an unknown exception).                         *)
(***************************************************************************)
EXTENDS Naturals, FiniteSets

S3_MAX_ATTEMPTS == 3
AttemptResults == {"ok", "missing", "refused", "busy", "broken"}
Attempts == [1 .. S3_MAX_ATTEMPTS -> AttemptResults]

StatusOf(result) ==
  CASE result = "ok" -> 200
    [] result = "missing" -> 404
    [] result = "refused" -> 403
    [] OTHER -> 0          \* None: S3 did not answer

\* s3_safe_call: busy is repeated, any other result ends the call.
S3Call(attempts) ==
  LET final == {i \in DOMAIN attempts : attempts[i] # "busy"}
      end   == CHOOSE i \in final : \A j \in final : i <= j
  IN  IF final = {} THEN [status |-> 0, error |-> TRUE, made |-> S3_MAX_ATTEMPTS]
      ELSE [status |-> StatusOf(attempts[end]), error |-> attempts[end] # "ok", made |-> end]

\* What a caller of upload_file, get_file or file_exists can be told.
S3Statuses == {S3Call(a).status : a \in Attempts}
=============================================================================
