------------------------------- MODULE SignIn -------------------------------
(***************************************************************************)
(* The sign-in pages over the session: password and Google for sellers,    *)
(* Google and an emailed link for buyers, and the page the link opens.  A   *)
(* form stays usable by the Google button while another sign-in is under    *)
(* way, and an answer acts on the tab whatever page it shows by then.       *)
(***************************************************************************)
EXTENDS Session

CONSTANT SignIns    \* bound: sign-in calls under way at a time

ASSUME SignInsAssumption == SignIns \in Nat

VARIABLES
  signInForm, \* the sign-in page a tab shows
  signing,    \* sign-in calls under way, by tab and way
  link,       \* the emailed link at the server
  opened      \* history: sessions opened by that link

signInVars == <<signInForm, signing, link, opened>>
browserVars == <<sessionVars, signInVars>>

Kind == {"none", "seller", "buyer", "verify"}
Way == {"password", "google", "email", "link"}

(* The ways a page offers; verify signs in by itself.                       *)
Ways == [k \in Kind |-> CASE k = "seller" -> {"password", "google"}
                          [] k = "buyer" -> {"google", "email"}
                          [] OTHER -> {}]

SignInForm == [kind : Kind, submitting : BOOLEAN, sent : BOOLEAN]
NewSignIn(k) == [kind |-> k, submitting |-> FALSE, sent |-> FALSE]

(* own: the form that made the call is still mounted.                       *)
SignInCall == [stage : {"none", "sent", "granted", "refused"}, own : BOOLEAN, pair : 0 .. Pairs]
NoSignIn == [stage |-> "none", own |-> FALSE, pair |-> NoPair]
NoSignIns == [w \in Way |-> NoSignIn]

Calling == {c \in Tab \X Way : signing[c[1]][c[2]].stage # "none"}
(* The server has a pair left for everyone who may still be granted one.    *)
Room == issued + Cardinality({r \in Request : Under(r)}) + Cardinality(Calling) < Pairs
RoomToSignIn == Room /\ Cardinality(Calling) < SignIns

SignInTypeOK ==
  /\ SessionTypeOK
  /\ signInForm \in [Tab -> SignInForm]
  /\ signing \in [Tab -> [Way -> SignInCall]]
  /\ link \in {"none", "valid", "used"}
  /\ opened \in Nat

SignInInit ==
  /\ SessionInit
  /\ signInForm = [t \in Tab |-> NewSignIn("none")]
  /\ signing = [t \in Tab |-> NoSignIns]
  /\ link = "none"
  /\ opened = 0
-----------------------------------------------------------------------------
(* A tab mounts another page within the application: the calls of the form  *)
(* it showed go on without it.                                              *)
Remount(t) ==
  /\ \E k \in {"seller", "buyer"} :
       signInForm' = [signInForm EXCEPT ![t] =
         NewSignIn(IF showing'[t] = "auth" THEN k ELSE "none")]
  /\ signing' = [signing EXCEPT ![t] = [w \in Way |-> [@[w] EXCEPT !.own = FALSE]]]
  /\ UNCHANGED <<link, opened>>

(* A tab is loaded anew: its calls are gone.                                *)
Load(t, k) ==
  /\ signInForm' = [signInForm EXCEPT ![t] = NewSignIn(k)]
  /\ signing' = [signing EXCEPT ![t] = NoSignIns]

OpenPage(t, p) == Open(t, p) /\ Remount(t)

(* A page load; loading the page of the link again is OpenLink.             *)
ReloadPage(t) ==
  /\ signInForm[t].kind # "verify"
  /\ LoadAnew(t)
  /\ \E k \in {"seller", "buyer"} : Load(t, IF showing'[t] = "auth" THEN k ELSE "none")
  /\ UNCHANGED <<link, opened>>

LogOutHere(t) == LogOut(t) /\ Remount(t)

SendFrom(r, t) == Room /\ Send(r, t) /\ UNCHANGED signInVars

FetchStep(r) ==
  LET t == request[r].tab
  IN /\ Fetch(r)
     /\ IF GaveUp(r) THEN /\ \E k \in {"seller", "buyer"} : Load(t, k)
                          /\ UNCHANGED <<link, opened>>
                     ELSE UNCHANGED signInVars
-----------------------------------------------------------------------------
(* Mutant of Settle: a form that was refused is not told.                   *)
SettleWhenSent(t, w, sent) ==
  IF signing[t][w].own /\ sent
    THEN signInForm' = [signInForm EXCEPT ![t].submitting = FALSE, ![t].sent = sent]
    ELSE UNCHANGED signInForm

(* The form of the call is told that it is over.                            *)
Settle(t, w, sent) ==
  IF signing[t][w].own
    THEN signInForm' = [signInForm EXCEPT ![t].submitting = FALSE, ![t].sent = sent]
    ELSE UNCHANGED signInForm

(* The disabled button keeps the form from being sent twice; the Google     *)
(* button only stops taking clicks, and its window may be open already.     *)
MaySubmit(t, w) ==
  /\ w \in Ways[signInForm[t].kind]
  /\ signing[t][w].stage = "none"
  /\ w = "google" \/ ~signInForm[t].submitting
  /\ ~signInForm[t].sent

Submit(t, w) ==
  /\ MaySubmit(t, w)
  /\ RoomToSignIn
  /\ signing' = [signing EXCEPT ![t][w] = [stage |-> "sent", own |-> TRUE, pair |-> NoPair]]
  /\ signInForm' = [signInForm EXCEPT ![t].submitting = TRUE]
  /\ UNCHANGED <<sessionVars, link, opened>>

(* The emailed link is opened, by a page load in some tab: the page sends   *)
(* its token at once, also when the browser is signed in already.           *)
OpenLink(t) ==
  /\ link # "none"
  /\ RoomToSignIn
  /\ Kill(t)
  /\ showing' = [showing EXCEPT ![t] = "auth"]
  /\ signInForm' = [signInForm EXCEPT ![t] = NewSignIn("verify")]
  /\ signing' = [signing EXCEPT ![t] =
       [NoSignIns EXCEPT !["link"] = [stage |-> "sent", own |-> TRUE, pair |-> NoPair]]]
  /\ UNCHANGED <<issued, storage, link, opened>>

(* Mutant of LinkAlive: looks at the expiry only.                           *)
LinkKnown == link # "none"

(* The update that consumes a link finds it unused and not expired.         *)
LinkAlive == link = "valid"

Grants(t, w) ==
  /\ signing[t][w].stage = "sent"
  /\ w # "email"
  /\ issued < Pairs
  /\ w = "link" => LinkAlive
  /\ issued' = issued + 1
  /\ signing' = [signing EXCEPT ![t][w].stage = "granted", ![t][w].pair = issued + 1]
  /\ link' = IF w = "link" THEN "used" ELSE link
  /\ opened' = IF w = "link" THEN opened + 1 ELSE opened
  /\ UNCHANGED <<used, storage, showing, request, forgotten, signInForm>>

(* A link is made and mailed.                                               *)
Mails(t) ==
  /\ signing[t]["email"].stage = "sent"
  /\ signing' = [signing EXCEPT ![t]["email"].stage = "granted"]
  /\ link' = IF link = "none" THEN "valid" ELSE link
  /\ UNCHANGED <<sessionVars, signInForm, opened>>

(* Wrong password, spent or expired link, an error on the way; or what was  *)
(* granted is lost on the way back.                                         *)
Denies(t, w) ==
  /\ signing[t][w].stage \in {"sent", "granted"}
  /\ signing' = [signing EXCEPT ![t][w].stage = "refused"]
  /\ UNCHANGED <<sessionVars, signInForm, link, opened>>

Over(t, w) == signing' = [signing EXCEPT ![t][w] = NoSignIn]

(* The pair is stored and the tab sent into the app, from whatever page it  *)
(* shows by now.                                                            *)
SignedInBy(t, w) ==
  /\ signing[t][w].stage = "granted"
  /\ w # "link" \/ signing[t][w].own
  /\ w # "email"
  /\ StorePair(signing[t][w].pair)
  /\ showing' = [showing EXCEPT ![t] = "app"]
  /\ signInForm' = [signInForm EXCEPT ![t] = NewSignIn("none")]
  /\ signing' = [signing EXCEPT ![t] =
       [v \in Way |-> IF v = w THEN NoSignIn ELSE [@[v] EXCEPT !.own = FALSE]]]
  /\ UNCHANGED <<serverVars, request, forgotten, link, opened>>

(* The page of the link was left (cancelled): the link is spent for nothing. *)
LinkLeft(t) ==
  /\ signing[t]["link"].stage = "granted"
  /\ ~signing[t]["link"].own
  /\ Over(t, "link")
  /\ UNCHANGED <<sessionVars, signInForm, link, opened>>

LinkSent(t) ==
  /\ signing[t]["email"].stage = "granted"
  /\ Over(t, "email")
  /\ Settle(t, "email", TRUE)
  /\ UNCHANGED <<sessionVars, link, opened>>

SignInFailed(t, w) ==
  /\ signing[t][w].stage = "refused"
  /\ Over(t, w)
  /\ Settle(t, w, FALSE)
  /\ UNCHANGED <<sessionVars, link, opened>>

(* When the minute is over.                                                 *)
TryAgain(t) ==
  /\ signInForm[t].sent
  /\ signInForm' = [signInForm EXCEPT ![t].sent = FALSE]
  /\ UNCHANGED <<sessionVars, signing, link, opened>>

CallStep(t, w) ==
  \/ Grants(t, w)
  \/ Denies(t, w)
  \/ SignedInBy(t, w)
  \/ SignInFailed(t, w)

MailStep(t) == Mails(t) \/ LinkSent(t) \/ LinkLeft(t)

SignInNext ==
  \/ \E r \in Request, t \in Tab : SendFrom(r, t)
  \/ \E t \in Tab, p \in Page : OpenPage(t, p)
  \/ \E t \in Tab : ReloadPage(t) \/ LogOutHere(t) \/ OpenLink(t) \/ TryAgain(t)
  \/ \E r \in Request : FetchStep(r)
  \/ \E t \in Tab, w \in Way : Submit(t, w) \/ CallStep(t, w)
  \/ \E t \in Tab : MailStep(t)

SignInSpec == SignInInit /\ [][SignInNext]_browserVars
-----------------------------------------------------------------------------
(* SpentTokenLeaves: a refresh token that the server has exchanged does not *)
(* stay in local storage, where the next 401 would sign the visitor out:    *)
(* whatever the interleaving of requests, tabs, sign-ins and sign-outs, a   *)
(* request is about to replace or remove it, unless a page load cut that    *)
(* request off.                                                             *)
SpentTokenLeaves ==
  refresh \in used =>
    \/ refresh \in forgotten
    \/ \E r \in Request : Under(r) /\ request[r].spends = refresh

(* LinkOpensOnce: an emailed link opens one session, however often it is    *)
(* opened and in however many tabs at once.                                 *)
LinkOpensOnce == opened <= 1
=============================================================================
