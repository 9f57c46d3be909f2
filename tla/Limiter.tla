------------------------------- MODULE Limiter -------------------------------
(***************************************************************************)
(* The counters of the OpenAI limiter                                      *)
(* (apps/content_generation/openai/limiter): requests, tokens and images   *)
(* of a minute, per account.  Operators only; module AnalysisFlow runs     *)
(* them under the Redis lock of the minute.                                *)
(***************************************************************************)
EXTENDS Integers, Sequences

CONSTANTS
  Accounts,     \* the accounts in the order of ACCOUNT_LIMITS, a sequence
  RPM, TPM, IPM \* LIMITS of one account in a minute: requests, tokens, images

ASSUME AccountsAssumption == Accounts \in Seq(STRING)
ASSUME LimitsAssumption == {RPM, TPM, IPM} \subseteq Nat

AccountNames == {Accounts[i] : i \in DOMAIN Accounts}
Metrics == {"RPM", "TPM", "IPM"}
Usage == [Metrics -> Nat]
Counters == [AccountNames -> Usage]

Limits == [RPM |-> RPM, TPM |-> TPM, IPM |-> IPM]
NoUsage == [m \in Metrics |-> 0]
Plus(u, v) == [m \in Metrics |-> u[m] + v[m]]

\* STORE_CURRENT_REQUEST, deep-copied for a minute that has no key yet.
EmptyCounters == [a \in AccountNames |-> NoUsage]

\* creating_dict_with_info_from_query
UsageOf(query) ==
  CASE query.target = "text"
         -> [RPM |-> 1, TPM |-> query.tokens, IPM |-> 0]
    [] query.target = "imagine"
         -> [RPM |-> query.pictures, TPM |-> 0, IPM |-> query.pictures]

\* Mutant of Fits: the usage so far is compared, without the request itself.
FitsBefore(used, request) ==
  \A m \in Metrics : request[m] > 0 => used[m] <= Limits[m]

\* A metric the request does not use is not checked.
Fits(used, request) ==
  \A m \in Metrics : request[m] > 0 => used[m] + request[m] <= Limits[m]

\* _select_account_for_generating: the positions of the accounts that have
\* room, and the first of them.
Suitable(counters, request) ==
  {i \in DOMAIN Accounts : Fits(counters[Accounts[i]], request)}
FirstSuitable(counters, request) ==
  CHOOSE i \in Suitable(counters, request) :
    \A j \in Suitable(counters, request) : i <= j

Charge(counters, account, request) ==
  [counters EXCEPT ![account] = Plus(counters[account], request)]
=============================================================================
