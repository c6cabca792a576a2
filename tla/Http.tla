-------------------------------- MODULE Http --------------------------------
(***************************************************************************)
(* The two HTTP clients of an engine: HttpClient (connectors/http.py),     *)
(* with the collections its Jira and Confluence subclasses walk page by    *)
(* page, and EngineClient (engine/api_client.py).                          *)
(*                                                                         *)
(* One call is alive at a time and a step is one answer of the server.     *)
(* A URL is the site it names; what a body says beyond the link to the     *)
(* next page is left out.                                                  *)
(***************************************************************************)
EXTENDS Integers, FiniteSets

CONSTANTS
  Home,           \* the configured site
  Away,           \* other sites a response can name
  Token,          \* search page tokens
  SourceTries,    \* RateLimitPolicy.attempts
  ApiTries,       \* RetryPolicy.attempts
  RetryAfter,     \* the seconds a Retry-After header can say; 0 also for none
  BaseDelay, MaxDelay,  \* of RateLimitPolicy.delay_for
  MaxWait,        \* RateLimitPolicy.max_wait_seconds
  RedirectLimit,  \* MAX_REDIRECTS
  PageCap         \* MAX_PAGES

Site == {Home} \cup Away
Walk == {"search", "offset", "cursor"}
CallKind == Walk \cup {"download", "api"}

ASSUME HttpAssumption ==
  /\ Home \notin Away
  /\ SourceTries \in Nat \ {0} /\ ApiTries \in Nat \ {0}
  /\ RetryAfter \subseteq Int
  /\ BaseDelay \in Nat \ {0} /\ MaxDelay \in Nat \ {0} /\ MaxWait \in Nat
  /\ RedirectLimit \in Nat /\ PageCap \in Nat \ {0}

\* How a call ends: "credential" is CredentialError or AuthenticationFailed,
\* "denied" one object or task withheld (PermissionDenied, LeaseNotHeld,
\* LeaseRefused), "left" a walk whose reader stopped asking.
Ending == {"ok", "exhausted", "rate_limited", "credential", "denied", "failed", "left"}

VARIABLE call

\* RateLimitPolicy.delay_for, as what the next back-off is after none and after d.
Smaller(a, b) == IF a < b THEN a ELSE b
FirstDelay == Smaller(BaseDelay, MaxDelay)
DelayAfter(d) == Smaller(2 * d, MaxDelay)

\* backoff stands for throttles: the wait of one more that names none.
NoCall == [kind |-> "api", site |-> Home, auth |-> FALSE, tries |-> 0, backoff |-> FirstDelay,
           waited |-> 0, hop |-> 0, page |-> 0, seen |-> {}, state |-> "left"]

HttpInit == call = NoCall

Going == call.state = "going"
Ends(how) == call' = [NoCall EXCEPT !.kind = call.kind, !.state = how]

\* _headers: the credential is for the configured site and no other.
Authorised(site) == site = Home

\* _stream entered anew: every hop and every page has the whole budget.
Asking(c, site, auth) ==
  [c EXCEPT !.site = site, !.auth = auth, !.tries = 0, !.backoff = FirstDelay,
            !.waited = 0, !.state = "going"]

\* get_json and the first hop of get_bytes: _require_same_origin, then the request.
AskSite(c, site) ==
  IF site = Home THEN call' = Asking(c, site, Authorised(site))
  ELSE call' = [NoCall EXCEPT !.kind = c.kind, !.state = "failed"]

\* A walk starts at a path of the API, a download at a link a response named.
Call(kind, site) ==
  /\ ~Going
  /\ kind # "download" => site = Home
  /\ AskSite([NoCall EXCEPT !.kind = kind], site)

----------------------------------------------------------------------------
(* The retry and throttle loop *)

Tries == IF call.kind = "api" THEN ApiTries ELSE SourceTries

\* A dropped connection, a timeout or a 5xx; for the API also a body that is
\* not JSON.  The next attempt, if there is one.
Fails ==
  /\ Going
  /\ IF call.tries + 1 < Tries THEN call' = [call EXCEPT !.tries = @ + 1] ELSE Ends("exhausted")

\* _retry_after: what is not an instruction to wait is answered with back-off.
WaitFor(said) == IF said > 0 THEN said ELSE call.backoff

\* 429 spends the waiting budget and no attempt.  To the engine's API client it
\* is one more 4xx and final.
Throttled(said) ==
  /\ Going
  /\ IF call.kind = "api" THEN Ends("failed")
     ELSE IF call.waited + WaitFor(said) > MaxWait THEN Ends("rate_limited")
     ELSE call' = [call EXCEPT !.backoff = DelayAfter(@), !.waited = @ + WaitFor(said)]

\* 401, 403, 409 and other final answers; a body past its cap or of no known shape.
Refused(how) == Going /\ Ends(how)

----------------------------------------------------------------------------
(* Redirects *)

\* Faulty variant: the redirect goes out with the headers of the first hop.
FollowWithHeaders(site) == [Asking(call, site, call.auth) EXCEPT !.hop = @ + 1]

\* Faulty variant: redirects are followed for as long as they come.
FollowUncounted(site) == Asking(call, site, FALSE)

\* get_bytes: the next hop, stripped of everything that authenticates us.
Follow(site) == [Asking(call, site, FALSE) EXCEPT !.hop = @ + 1]

\* Faulty variant: the limit is compared before the hop is counted.
RedirectedOnceMore(site) ==
  /\ Going
  /\ IF call.kind = "download" /\ call.hop <= RedirectLimit
     THEN call' = Follow(site)
     ELSE Ends("failed")

\* Only a download follows; elsewhere the body of a redirect is not an answer.
Redirected(site) ==
  /\ Going
  /\ IF call.kind = "download" /\ Follow(site).hop <= RedirectLimit
     THEN call' = Follow(site)
     ELSE Ends("failed")

----------------------------------------------------------------------------
(* Answers *)

Responded == Going /\ call.kind \in {"download", "api"} /\ Ends("ok")

NextPage == [call EXCEPT !.page = @ + 1]
LastAllowed == call.page + 1 = PageCap

\* The collection says it has no more: no token, isLast, total reached, an
\* empty page, no next link.
WalkEnds == Going /\ call.kind \in Walk /\ Ends("ok")

\* JiraClient.search: a token seen before is a server that loops.
SearchPage(token) ==
  /\ Going /\ call.kind = "search"
  /\ IF token \in call.seen \/ LastAllowed THEN Ends("failed")
     ELSE AskSite([NextPage EXCEPT !.seen = @ \cup {token}], Home)

\* JiraClient.paginate asks for startAt itself.
OffsetPage ==
  /\ Going /\ call.kind = "offset"
  /\ IF LastAllowed THEN Ends("failed") ELSE AskSite(NextPage, Home)

\* ConfluenceClient.paginate follows the link verbatim, if it stays on the site.
CursorPage(site) ==
  /\ Going /\ call.kind = "cursor"
  /\ IF LastAllowed THEN Ends("failed") ELSE AskSite(NextPage, site)

\* search_one wants the first result; a cancelled task stops asking.
ReaderStops == Going /\ call.kind \in Walk /\ call.page > 0 /\ Ends("left")

Reply ==
  \/ Fails \/ \E s \in RetryAfter : Throttled(s)
  \/ \E h \in {"credential", "denied", "failed"} : Refused(h)
  \/ \E s \in Site : Redirected(s) \/ CursorPage(s)
  \/ Responded \/ WalkEnds \/ OffsetPage \/ ReaderStops
  \/ \E t \in Token : SearchPage(t)

HttpNext == Reply \/ \E k \in CallKind, s \in Site : Call(k, s)

\* The client's timeout turns a silent server into a failure, so a reply comes.
HttpFairness == WF_call(Reply)
HttpSpec == HttpInit /\ [][HttpNext]_call /\ HttpFairness

----------------------------------------------------------------------------
HttpTypeOK ==
  call \in [kind : CallKind, site : Site, auth : BOOLEAN, tries : Nat, backoff : Nat \ {0},
            waited : 0..MaxWait, hop : 0..RedirectLimit, page : 0..PageCap, seen : SUBSET Token,
            state : Ending \cup {"going"}]

\* A request that carries the source's credential goes to the configured site,
\* whatever links and redirects earlier answers named.
CredentialStaysHome == Going /\ call.auth => call.site = Home

\* Whatever the server answers (failures, throttling, redirects, page after
\* page), the call ends: an engine is never held by one source for ever.
RequestEnds == Going ~> ~Going
=============================================================================
