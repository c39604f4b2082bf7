------------------------------ MODULE Session -------------------------------
(***************************************************************************)
(* The signed-in session of a browser.  A pair of tokens, a JWT for four   *)
(* hours and a refresh token that the server exchanges once for a new pair, *)
(* lives in the local storage that all tabs share.  Every request of a page *)
(* goes through requestJSON, which answers a 401 by refreshing the session, *)
(* repeating the request once, and giving the session up when that fails.   *)
(*                                                                         *)
(* A pair is named by the order in which the server issued it.              *)
(***************************************************************************)
EXTENDS Naturals, FiniteSets

CONSTANTS
  Tab,        \* tabs of one browser
  Request,    \* requests that can be under way at a time
  Pairs,      \* bound: pairs the server issues
  NetFaults   \* what may go wrong on the way: subset of NetFault

NetFault == {"lost", "refused", "reload"}

ASSUME SessionAssumption ==
  /\ Tab # {}
  /\ Pairs \in Nat \ {0}
  /\ NetFaults \subseteq NetFault

NoPair == 0
Pair == 1 .. Pairs

VARIABLES
  issued,   \* pairs issued so far
  used,     \* pairs whose refresh token is marked used (refresh_tokens.used)
  access,   \* localStorage: pair of localroots_token
  refresh,  \* localStorage: pair of localroots_refresh_token
  showing,  \* what each tab shows
  request,  \* the requests under way
  forgotten \* history: pairs whose exchange was cut off by a page load

serverVars == <<issued, used>>
storage == <<access, refresh>>
sessionVars == <<serverVars, storage, showing, request, forgotten>>

(* "app": the pages under /seller, /buyer and /pickup/confirm; "open": the  *)
(* others; "auth": the sign-in pages.                                       *)
Page == {"app", "open", "auth"}

(* Where requestJSON stands: fetch sent, refresh sent, refresh token looked *)
(* up by the server, new pair on its way, refresh failed, fetch repeated.   *)
Stage == {"idle", "sent", "refreshing", "checked", "granted", "failed", "repeated"}

Slot == [stage : Stage, tab : Tab, from : Page, spends : 0 .. Pairs, pair : 0 .. Pairs]

Under(r) == request[r].stage # "idle"
NoRequest ==
  [stage |-> "idle", tab |-> CHOOSE t \in Tab : TRUE, from |-> "open",
   spends |-> NoPair, pair |-> NoPair]

SessionTypeOK ==
  /\ issued \in 0 .. Pairs
  /\ used \subseteq Pair
  /\ access \in 0 .. Pairs
  /\ refresh \in 0 .. Pairs
  /\ showing \in [Tab -> Page]
  /\ request \in [Request -> Slot]
  /\ forgotten \subseteq Pair

SessionInit ==
  /\ issued = 0
  /\ used = {}
  /\ access = NoPair
  /\ refresh = NoPair
  /\ showing = [t \in Tab |-> "open"]
  /\ request = [r \in Request |-> NoRequest]
  /\ forgotten = {}
-----------------------------------------------------------------------------
(* Local storage (session.ts).                                              *)

(* session.setToken and setRefreshToken, as every caller uses the two.      *)
StorePair(n) ==
  /\ access' = n
  /\ refresh' = n

(* Mutant of StoreRefreshed: keeps the refresh token that was just spent.   *)
StoreAccessOnly(n) ==
  /\ access' = n
  /\ UNCHANGED refresh

(* A refresh stores both.                                                   *)
StoreRefreshed(n) == StorePair(n)

(* session.clearToken removes both.                                         *)
ClearToken ==
  /\ access' = NoPair
  /\ refresh' = NoPair

SignedIn == access # NoPair
-----------------------------------------------------------------------------
(* Tabs.                                                                    *)

(* A page of the app sends the visitor without a session to the sign-in     *)
(* page, which sends the signed-in away.                                    *)
Shown(p) ==
  CASE p = "app" /\ ~SignedIn -> "auth"
    [] p = "auth" /\ SignedIn -> "app"
    [] OTHER -> p

Mount(t, p) == showing' = [showing EXCEPT ![t] = Shown(p)]

(* A page is opened within the application: the requests of the page before *)
(* it go on.                                                                *)
Open(t, p) ==
  /\ Mount(t, p)
  /\ UNCHANGED <<serverVars, storage, request, forgotten>>

(* A page load kills what the scripts of the tab were waiting for.  The     *)
(* server may still exchange the refresh tokens it has been sent.           *)
Kill(t) ==
  LET cut == {r \in Request : /\ request[r].tab = t
                              /\ request[r].stage \in {"refreshing", "checked", "granted", "failed"}}
      spent == {request[r].spends : r \in cut} \ {NoPair}
  IN /\ request' = [r \in Request |-> IF request[r].tab = t THEN NoRequest ELSE request[r]]
     /\ forgotten' = forgotten \cup spent
     /\ \E done \in SUBSET spent : used' = used \cup done

LoadAnew(t) ==
  /\ "reload" \in NetFaults
  /\ Kill(t)
  /\ Mount(t, showing[t])
  /\ UNCHANGED <<issued, storage>>

(* "Log out" and "Sign out": the scripts of the tab go on.                  *)
LogOut(t) ==
  /\ SignedIn
  /\ showing[t] # "auth"
  /\ ClearToken
  /\ showing' = [showing EXCEPT ![t] = IF showing[t] = "app" THEN "auth" ELSE "open"]
  /\ UNCHANGED <<serverVars, request, forgotten>>
-----------------------------------------------------------------------------
(* requestJSON.                                                             *)

Done(r) == request' = [request EXCEPT ![r] = NoRequest]

(* A page of the app calls the API with the JWT it took into its state when *)
(* it was mounted, an open page with an order's or a subscription's token.  *)
(* Either may be out of date by then, so that a 401 is possible each time.  *)
Send(r, t) ==
  /\ ~Under(r)
  /\ showing[t] \in {"app", "open"}
  /\ request' = [request EXCEPT ![r] =
       [stage |-> "sent", tab |-> t, from |-> showing[t], spends |-> NoPair, pair |-> NoPair]]
  /\ UNCHANGED <<serverVars, storage, showing, forgotten>>

(* The answer is a result, or an error other than 401, which is thrown.     *)
Answered(r) ==
  /\ request[r].stage = "sent"
  /\ Done(r)
  /\ UNCHANGED <<serverVars, storage, showing, forgotten>>

(* A 401.  On a sign-in page it is thrown; elsewhere the stored refresh     *)
(* token is spent, if there is one.  The path is remembered for later.      *)
Unauthorized(r) ==
  LET t == request[r].tab
  IN /\ request[r].stage = "sent"
     /\ IF showing[t] = "auth"
          THEN Done(r)
          ELSE request' = [request EXCEPT
                 ![r].stage = IF refresh = NoPair THEN "failed" ELSE "refreshing",
                 ![r].from = showing[t],
                 ![r].spends = refresh]
     /\ UNCHANGED <<serverVars, storage, showing, forgotten>>

(* AuthAPI.Refresh reads the row of the token ...                           *)
RefreshCheck(r) ==
  /\ request[r].stage = "refreshing"
  /\ request' = [request EXCEPT
       ![r].stage = IF request[r].spends \in used THEN "failed" ELSE "checked"]
  /\ UNCHANGED <<serverVars, storage, showing, forgotten>>

(* ... then marks it and issues the next pair, without looking again.       *)
RefreshRotate(r) ==
  /\ request[r].stage = "checked"
  /\ issued < Pairs
  /\ used' = used \cup {request[r].spends}
  /\ issued' = issued + 1
  /\ request' = [request EXCEPT ![r].stage = "granted", ![r].pair = issued + 1]
  /\ UNCHANGED <<storage, showing, forgotten>>

(* The call or its answer is lost, or the rate limiter refuses it: refresh  *)
(* returns false.                                                           *)
RefreshLost(r) ==
  /\ "lost" \in NetFaults
  /\ request[r].stage \in {"refreshing", "granted"}
  /\ request' = [request EXCEPT ![r].stage = "failed"]
  /\ UNCHANGED <<serverVars, storage, showing, forgotten>>

(* The new pair is stored and the request repeated with it; a request of an *)
(* open page is repeated with the session's JWT instead of its own token.   *)
Repeat(r) ==
  /\ request[r].stage = "granted"
  /\ StoreRefreshed(request[r].pair)
  /\ request' = [request EXCEPT ![r].stage = "repeated"]
  /\ UNCHANGED <<serverVars, showing, forgotten>>

RepeatAnswered(r) ==
  /\ request[r].stage = "repeated"
  /\ Done(r)
  /\ UNCHANGED <<serverVars, storage, showing, forgotten>>

(* Mutant of RepeatRefused: the repeated request goes through the 401 path. *)
RepeatIntercepted(r) ==
  /\ request[r].stage = "repeated"
  /\ "refused" \in NetFaults \/ request[r].from = "open"
  /\ request' = [request EXCEPT ![r].stage = "refreshing", ![r].spends = refresh]
  /\ UNCHANGED <<serverVars, storage, showing, forgotten>>

(* The repeated request is answered with anything but success: a new 401,   *)
(* or a refusal that has nothing to do with the session.                    *)
RepeatRefused(r) ==
  /\ request[r].stage = "repeated"
  /\ "refused" \in NetFaults \/ request[r].from = "open"
  /\ request' = [request EXCEPT ![r].stage = "failed"]
  /\ UNCHANGED <<serverVars, storage, showing, forgotten>>

(* The request gives up from a page of the app.                             *)
GaveUp(r) == request[r].stage = "failed" /\ request[r].from = "app"

(* The session is cleared; from a page of the app the tab is loaded anew at *)
(* the sign-in page, wherever the visitor is by now.                        *)
GiveUp(r) ==
  LET t == request[r].tab
  IN /\ request[r].stage = "failed"
     /\ ClearToken
     /\ IF GaveUp(r)
          THEN /\ showing' = [showing EXCEPT ![t] = "auth"]
               /\ Kill(t)
          ELSE /\ Done(r)
               /\ UNCHANGED <<showing, used, forgotten>>
     /\ UNCHANGED <<issued>>

Fetch(r) ==
  \/ Answered(r)
  \/ Unauthorized(r)
  \/ RefreshCheck(r)
  \/ RefreshRotate(r)
  \/ RefreshLost(r)
  \/ Repeat(r)
  \/ RepeatAnswered(r)
  \/ RepeatRefused(r)
  \/ GiveUp(r)

=============================================================================
