--------------------------- MODULE Visitor_proofs ---------------------------
(***************************************************************************)
(* For any tabs, requests, handlers and bounds: what a visit says of the    *)
(* session, of an emailed link and of the page of a subscription.           *)
(***************************************************************************)
EXTENDS Visitor, Checkout_proofs

(* A pair that waits to be stored: nobody has spent it.                     *)
Fresh(p) ==
  /\ p \in 1 .. issued
  /\ p \notin used
  /\ p # refresh
  /\ \A r \in Request : request[r].spends # p

(* What brings a pair: a refresh, and a sign-in other than the mail.        *)
Granted(r) == request[r].stage = "granted"
Brought(t, w) == w # "email" /\ signing[t][w].stage = "granted"

PairsInv ==
  /\ refresh \in 0 .. issued
  /\ used \subseteq 1 .. issued
  /\ \A r \in Request : request[r].spends \in 0 .. issued

SpendsInv ==
  \A r \in Request :
    /\ request[r].stage \in {"idle", "sent"} => request[r].spends = NoPair
    /\ request[r].stage \in {"refreshing", "checked", "granted", "repeated"} =>
         request[r].spends # NoPair
    /\ request[r].stage = "repeated" => request[r].spends # refresh

ComingInv ==
  /\ \A r \in Request : Granted(r) => Fresh(request[r].pair)
  /\ \A t \in Tab, w \in Way : Brought(t, w) => Fresh(signing[t][w].pair)

(* No pair comes twice.                                                     *)
ApartInv ==
  /\ \A r, s \in Request :
       Granted(r) /\ Granted(s) /\ r # s => request[r].pair # request[s].pair
  /\ \A r \in Request, t \in Tab, w \in Way :
       Granted(r) /\ Brought(t, w) => request[r].pair # signing[t][w].pair
  /\ \A t, u \in Tab, w, v \in Way :
       Brought(t, w) /\ Brought(u, v) /\ (t # u \/ w # v) =>
         signing[t][w].pair # signing[u][v].pair

(* A link opens a session by being used.                                    *)
LinkInv == LinkOpensOnce /\ (link # "used" => opened = 0)
-----------------------------------------------------------------------------
(* Types of the session and the sign-in pages.                              *)

LEMMA NewSlotTypes ==
  /\ NoRequest \in Slot
  /\ NoSignIn \in SignInCall /\ NoSignIns \in [Way -> SignInCall]
  /\ \A k \in Kind : NewSignIn(k) \in SignInForm
<1>1. (CHOOSE t \in Tab : TRUE) \in Tab
  BY SessionAssumption
<1>2. NoRequest \in Slot
  BY <1>1, SessionAssumption DEF NoRequest, Slot, Stage, Page, NoPair
<1>3. NoSignIn \in SignInCall
  BY SessionAssumption DEF NoSignIn, SignInCall, NoPair
<1> QED
  BY <1>2, <1>3 DEF NoSignIns, NewSignIn, SignInForm

LEMMA ShownPage ==
  ASSUME NEW p \in Page
  PROVE  Shown(p) \in Page
BY DEF Shown, Page

LEMMA RequestTypes ==
  ASSUME SessionTypeOK, NEW r \in Request
  PROVE  /\ request[r].stage \in Stage /\ request[r].tab \in Tab
         /\ request[r].from \in Page
         /\ request[r].spends \in 0 .. Pairs /\ request[r].pair \in 0 .. Pairs
BY DEF SessionTypeOK, Slot

LEMMA CallTypes ==
  ASSUME SignInTypeOK, NEW t \in Tab, NEW w \in Way
  PROVE  /\ signing[t] \in [Way -> SignInCall]
         /\ signing[t][w].stage \in {"none", "sent", "granted", "refused"}
         /\ signing[t][w].own \in BOOLEAN /\ signing[t][w].pair \in 0 .. Pairs
BY DEF SignInTypeOK, SignInCall

(* Every change of the requests is to one of them, or a page load's.        *)
LEMMA SetRequest ==
  ASSUME SessionTypeOK, NEW r \in Request, NEW slot \in Slot,
         request' = [request EXCEPT ![r] = slot]
  PROVE  request' \in [Request -> Slot]
BY DEF SessionTypeOK

LEMMA KillTypes ==
  ASSUME SessionTypeOK, NEW t \in Tab, Kill(t)
  PROVE  /\ request' \in [Request -> Slot]
         /\ used' \subseteq Pair /\ forgotten' \subseteq Pair
<1>1. request' \in [Request -> Slot]
  BY NewSlotTypes DEF Kill, SessionTypeOK
<1>2. {request[r].spends : r \in Request} \ {NoPair} \subseteq Pair
  BY RequestTypes, SessionAssumption DEF Pair, NoPair
<1> QED
  BY <1>1, <1>2 DEF Kill, SessionTypeOK

LEMMA FetchTypes ==
  ASSUME SessionTypeOK, SpendsInv, NEW r \in Request, Fetch(r)
  PROVE  SessionTypeOK'
<1> USE SessionAssumption, RequestTypes DEF serverVars, storage
<1>s. request[r] \in Slot
  BY DEF SessionTypeOK
<1>1. CASE Answered(r) \/ RepeatAnswered(r)
  BY <1>1, NewSlotTypes DEF Answered, RepeatAnswered, Done, SessionTypeOK
<1>2. CASE Unauthorized(r)
  <2>1. CASE showing[request[r].tab] = "auth"
    BY <1>2, <2>1, NewSlotTypes DEF Unauthorized, Done, SessionTypeOK
  <2>2. CASE showing[request[r].tab] # "auth"
    <3>1. ASSUME NEW new \in Stage,
                 request' = [request EXCEPT ![r].stage = new,
                               ![r].from = showing[request[r].tab],
                               ![r].spends = refresh]
          PROVE  request' \in [Request -> Slot]
      BY <3>1 DEF SessionTypeOK, Slot
    <3>2. request' \in [Request -> Slot]
      BY <1>2, <2>2, <3>1 DEF Unauthorized, Stage
    <3> QED
      BY <1>2, <3>2 DEF Unauthorized, SessionTypeOK
  <2> QED
    BY <2>1, <2>2
<1>3. ASSUME NEW new \in Stage, request' = [request EXCEPT ![r].stage = new]
      PROVE  request' \in [Request -> Slot]
  BY <1>3 DEF SessionTypeOK, Slot
<1>4. CASE RefreshCheck(r)
  BY <1>3, <1>4 DEF RefreshCheck, Stage, SessionTypeOK
<1>5. CASE RefreshRotate(r)
  <2>1. ASSUME NEW p \in 0 .. Pairs,
               request' = [request EXCEPT ![r].stage = "granted", ![r].pair = p]
        PROVE  request' \in [Request -> Slot]
    BY <2>1 DEF SessionTypeOK, Slot, Stage
  <2>2. issued' \in 0 .. Pairs /\ request' \in [Request -> Slot]
    <3>1. issued + 1 \in 0 .. Pairs
      BY <1>5 DEF RefreshRotate, SessionTypeOK
    <3> QED
      BY <1>5, <2>1, <3>1 DEF RefreshRotate
  <2>3. request[r].spends \in Pair
    BY <1>5 DEF Pair, NoPair, SpendsInv, RefreshRotate
  <2> QED
    BY <1>5, <2>2, <2>3 DEF RefreshRotate, SessionTypeOK
<1>6. CASE RefreshLost(r) \/ RepeatRefused(r)
  <2>1. request' = [request EXCEPT ![r].stage = "failed"]
    BY <1>6 DEF RefreshLost, RepeatRefused
  <2>2. request' \in [Request -> Slot]
    BY <1>3, <2>1 DEF Stage
  <2> QED
    BY <1>6, <2>2 DEF RefreshLost, RepeatRefused, SessionTypeOK
<1>7. CASE Repeat(r)
  BY <1>3, <1>7 DEF Repeat, StoreRefreshed, StorePair, Stage, SessionTypeOK
<1>8. CASE GiveUp(r)
  <2>1. CASE GaveUp(r)
    BY <1>8, <2>1, KillTypes
       DEF GiveUp, ClearToken, NoPair, SessionTypeOK, Page
  <2>2. CASE ~GaveUp(r)
    BY <1>8, <2>2, NewSlotTypes
       DEF GiveUp, ClearToken, NoPair, Done, SessionTypeOK
  <2> QED
    BY <2>1, <2>2
<1> QED
  BY <1>1, <1>2, <1>4, <1>5, <1>6, <1>7, <1>8 DEF Fetch

LEMMA SetSignIn ==
  ASSUME SignInTypeOK, NEW t \in Tab, NEW k \in Kind
  PROVE  [signInForm EXCEPT ![t] = NewSignIn(k)] \in [Tab -> SignInForm]
BY NewSlotTypes DEF SignInTypeOK

LEMMA OrphansTypes ==
  ASSUME SignInTypeOK, NEW t \in Tab
  PROVE  [signing EXCEPT ![t] = [w \in Way |-> [@[w] EXCEPT !.own = FALSE]]]
           \in [Tab -> [Way -> SignInCall]]
<1>1. ASSUME NEW w \in Way
      PROVE  [signing[t][w] EXCEPT !.own = FALSE] \in SignInCall
  BY CallTypes DEF SignInCall
<1> QED
  BY <1>1 DEF SignInTypeOK

LEMMA RemountTypes ==
  ASSUME SignInTypeOK, NEW t \in Tab, Remount(t)
  PROVE  /\ signInForm' \in [Tab -> SignInForm]
         /\ signing' \in [Tab -> [Way -> SignInCall]]
BY SetSignIn, OrphansTypes DEF Remount, Kind

LEMMA LoadTypes ==
  ASSUME SignInTypeOK, NEW t \in Tab, NEW k \in Kind, Load(t, k)
  PROVE  /\ signInForm' \in [Tab -> SignInForm]
         /\ signing' \in [Tab -> [Way -> SignInCall]]
BY SetSignIn, NewSlotTypes DEF Load, SignInTypeOK

LEMMA TabTypes ==
  ASSUME SignInTypeOK, NEW t \in Tab,
         \/ \E p \in Page : OpenPage(t, p)
         \/ ReloadPage(t) \/ LogOutHere(t) \/ OpenLink(t) \/ TryAgain(t)
  PROVE  SignInTypeOK'
<1> USE SessionAssumption, ShownPage DEF serverVars, storage
<1>1. SessionTypeOK /\ showing[t] \in Page
  BY DEF SignInTypeOK, SessionTypeOK
<1>2. CASE \E p \in Page : OpenPage(t, p)
  BY <1>1, <1>2, RemountTypes
     DEF OpenPage, Open, Mount, Remount, SignInTypeOK, SessionTypeOK
<1>3. CASE ReloadPage(t)
  <2>1. SessionTypeOK'
    BY <1>1, <1>3, KillTypes DEF ReloadPage, LoadAnew, Mount, SessionTypeOK
  <2> QED
    BY <1>3, <2>1, LoadTypes DEF ReloadPage, SignInTypeOK, Kind
<1>4. CASE LogOutHere(t)
  <2>1. SessionTypeOK'
    BY <1>1, <1>4 DEF LogOutHere, LogOut, ClearToken, NoPair, SessionTypeOK, Page
  <2> QED
    BY <1>4, <2>1, RemountTypes DEF LogOutHere, Remount, SignInTypeOK
<1>5. CASE OpenLink(t)
  <2>1. SessionTypeOK'
    BY <1>1, <1>5, KillTypes DEF OpenLink, SessionTypeOK, Page
  <2>2. [NoSignIns EXCEPT !["link"] = [stage |-> "sent", own |-> TRUE, pair |-> NoPair]]
          \in [Way -> SignInCall]
    <3>1. [stage |-> "sent", own |-> TRUE, pair |-> NoPair] \in SignInCall
      BY DEF SignInCall, NoPair
    <3> QED
      BY <3>1, NewSlotTypes
  <2>3. signing' \in [Tab -> [Way -> SignInCall]]
    BY <1>5, <2>2 DEF OpenLink, SignInTypeOK
  <2> QED
    BY <1>5, <2>1, <2>3, SetSignIn DEF OpenLink, SignInTypeOK, Kind
<1>6. CASE TryAgain(t)
  <2>1. signInForm' \in [Tab -> SignInForm]
    BY <1>6 DEF TryAgain, SignInTypeOK, SignInForm
  <2> QED
    BY <1>6, <2>1 DEF TryAgain, sessionVars, SignInTypeOK, SessionTypeOK
<1> QED
  BY <1>2, <1>3, <1>4, <1>5, <1>6

LEMMA RequestStepTypes ==
  ASSUME SignInTypeOK, SpendsInv, NEW r \in Request,
         FetchStep(r) \/ \E t \in Tab : SendFrom(r, t)
  PROVE  SignInTypeOK'
<1>0. SessionTypeOK /\ request[r].tab \in Tab
  BY RequestTypes DEF SignInTypeOK
<1>1. CASE FetchStep(r)
  <2>1. SessionTypeOK'
    BY <1>0, <1>1, FetchTypes DEF FetchStep
  <2> QED
    BY <1>0, <1>1, <2>1, LoadTypes DEF FetchStep, SignInTypeOK, signInVars, Kind
<1>2. ASSUME NEW t \in Tab, SendFrom(r, t)
      PROVE  SignInTypeOK'
  <2>1. request' \in [Request -> Slot]
    BY <1>0, <1>2, SessionAssumption
       DEF SendFrom, Send, SessionTypeOK, Slot, Stage, Page, NoPair
  <2> QED
    BY <1>2, <2>1 DEF SendFrom, Send, signInVars, serverVars, storage, SignInTypeOK,
       SessionTypeOK
<1> QED
  BY <1>1, <1>2

LEMMA CallStepTypes ==
  ASSUME SignInTypeOK, NEW t \in Tab, NEW w \in Way,
         Submit(t, w) \/ CallStep(t, w) \/ MailStep(t)
  PROVE  SignInTypeOK'
<1> USE SessionAssumption DEF serverVars, storage
<1>0. SessionTypeOK
  BY DEF SignInTypeOK
<1>s. UNCHANGED sessionVars => SessionTypeOK'
  BY <1>0 DEF sessionVars, SessionTypeOK
<1>k. \A v \in Way : signing[t][v] \in SignInCall
  BY DEF SignInTypeOK
<1>c. ASSUME NEW v \in Way, NEW c \in SignInCall
      PROVE  [signing EXCEPT ![t][v] = c] \in [Tab -> [Way -> SignInCall]]
  BY CallTypes DEF SignInTypeOK
<1>g. ASSUME NEW v \in Way, NEW s \in {"none", "sent", "granted", "refused"}
      PROVE  [signing EXCEPT ![t][v].stage = s] \in [Tab -> [Way -> SignInCall]]
  <2>1. [signing[t][v] EXCEPT !.stage = s] \in SignInCall
    BY CallTypes DEF SignInCall
  <2>2. [signing EXCEPT ![t][v] = [signing[t][v] EXCEPT !.stage = s]]
          \in [Tab -> [Way -> SignInCall]]
    BY <1>c, <2>1
  <2> QED
    BY <2>2
<1>o. ASSUME NEW v \in Way, NEW b \in BOOLEAN, Settle(t, v, b)
      PROVE  signInForm' \in [Tab -> SignInForm]
  <2>1. [signInForm[t] EXCEPT !.submitting = FALSE, !.sent = b] \in SignInForm
    BY DEF SignInTypeOK, SignInForm
  <2>2. [signInForm EXCEPT ![t] = [signInForm[t] EXCEPT !.submitting = FALSE, !.sent = b]]
          \in [Tab -> SignInForm]
    BY <2>1 DEF SignInTypeOK
  <2> QED
    BY <1>o, <2>2 DEF Settle, SignInTypeOK
<1>1. CASE Submit(t, w)
  <2>1. [stage |-> "sent", own |-> TRUE, pair |-> NoPair] \in SignInCall
    BY DEF SignInCall, NoPair
  <2>2. signInForm' \in [Tab -> SignInForm]
    BY <1>1 DEF Submit, SignInTypeOK, SignInForm
  <2> QED
    BY <1>1, <1>s, <1>c, <2>1, <2>2 DEF Submit, SignInTypeOK
<1>2. CASE Grants(t, w)
  <2>1. ASSUME NEW p \in 0 .. Pairs,
               signing' = [signing EXCEPT ![t][w].stage = "granted", ![t][w].pair = p]
        PROVE  signing' \in [Tab -> [Way -> SignInCall]]
    <3>1. [signing[t][w] EXCEPT !.stage = "granted", !.pair = p] \in SignInCall
      BY <1>k DEF SignInCall
    <3>2. [signing EXCEPT ![t][w] = [signing[t][w] EXCEPT !.stage = "granted", !.pair = p]]
            \in [Tab -> [Way -> SignInCall]]
      BY <1>c, <3>1
    <3> QED
      BY <2>1, <3>2
  <2>2. issued' \in 0 .. Pairs /\ signing' \in [Tab -> [Way -> SignInCall]]
    <3>1. issued + 1 \in 0 .. Pairs
      BY <1>0, <1>2 DEF Grants, SessionTypeOK
    <3> QED
      BY <1>2, <2>1, <3>1 DEF Grants
  <2> QED
    BY <1>2, <2>2 DEF Grants, SignInTypeOK, SessionTypeOK
<1>3. CASE Denies(t, w)
  BY <1>3, <1>s, <1>g DEF Denies, SignInTypeOK
<1>4. CASE SignedInBy(t, w)
  <2>1. SessionTypeOK'
    BY <1>0, <1>4, CallTypes
       DEF SignedInBy, StorePair, SessionTypeOK, Page
  <2>2. ASSUME NEW v \in Way
        PROVE  [signing[t][v] EXCEPT !.own = FALSE] \in SignInCall
    BY <1>k DEF SignInCall
  <2>3. signing' \in [Tab -> [Way -> SignInCall]]
    BY <1>4, <2>2, NewSlotTypes DEF SignedInBy, SignInTypeOK
  <2> QED
    BY <1>4, <2>1, <2>3, SetSignIn DEF SignedInBy, SignInTypeOK, Kind
<1>5. CASE SignInFailed(t, w)
  BY <1>5, <1>s, <1>c, <1>o, NewSlotTypes DEF SignInFailed, Over, SignInTypeOK
<1>6. CASE Mails(t)
  BY <1>6, <1>s, <1>g DEF Mails, SignInTypeOK, Way
<1>7. CASE LinkSent(t)
  BY <1>7, <1>s, <1>c, <1>o, NewSlotTypes DEF LinkSent, Over, SignInTypeOK, Way
<1>8. CASE LinkLeft(t)
  BY <1>8, <1>s, <1>c, NewSlotTypes DEF LinkLeft, Over, SignInTypeOK, Way
<1> QED
  BY <1>1, <1>2, <1>3, <1>4, <1>5, <1>6, <1>7, <1>8 DEF CallStep, MailStep

LEMMA SignInStepTypes ==
  ASSUME SignInTypeOK, SpendsInv, [SignInNext]_browserVars
  PROVE  SignInTypeOK'
<1>1. CASE SignInNext
  <2>1. "link" \in Way
    BY DEF Way
  <2> QED
    BY <1>1, <2>1, TabTypes, RequestStepTypes, CallStepTypes DEF SignInNext
<1>2. CASE UNCHANGED browserVars
  BY <1>2 DEF browserVars, sessionVars, signInVars, serverVars, storage, SignInTypeOK,
     SessionTypeOK
<1> QED
  BY <1>1, <1>2

-----------------------------------------------------------------------------
(* Pairs.  What a step does to them: nothing comes, what came is stored, or *)
(* a new pair is on its way.                                                *)

Keeps(r) == Granted(r)' => Granted(r) /\ request'[r].pair = request[r].pair
KeepsCall(t, w) == Brought(t, w)' => Brought(t, w) /\ signing'[t][w].pair = signing[t][w].pair

SpendsKept == \A r \in Request : request'[r].spends \in {request[r].spends, NoPair, refresh}
UsedKept ==
  \A p \in used' : p \in used \/ (p # NoPair /\ \E r \in Request : request[r].spends = p)

Quiet ==
  /\ issued' = issued
  /\ refresh' \in {refresh, NoPair}
  /\ SpendsKept /\ UsedKept
  /\ \A r \in Request : Keeps(r)
  /\ \A t \in Tab, w \in Way : KeepsCall(t, w)

Stores ==
  /\ issued' = issued
  /\ SpendsKept /\ UsedKept
  /\ \A r \in Request : Keeps(r)
  /\ \A t \in Tab, w \in Way : KeepsCall(t, w)
  /\ \/ \E r \in Request : Granted(r) /\ ~Granted(r)' /\ refresh' = request[r].pair
     \/ \E t \in Tab, w \in Way :
          Brought(t, w) /\ ~Brought(t, w)' /\ refresh' = signing[t][w].pair

Issues ==
  /\ issued' = issued + 1
  /\ refresh' = refresh
  /\ SpendsKept /\ UsedKept
  /\ \/ \E r \in Request :
          /\ request'[r].pair = issued + 1
          /\ \A s \in Request \ {r} : Keeps(s)
          /\ \A t \in Tab, w \in Way : KeepsCall(t, w)
     \/ \E t \in Tab, w \in Way :
          /\ signing'[t][w].pair = issued + 1
          /\ \A r \in Request : Keeps(r)
          /\ \A u \in Tab, v \in Way : (u # t \/ v # w) => KeepsCall(u, v)

PairStep == Quiet \/ Stores \/ Issues

PairFacts == issued \in Nat /\ PairsInv /\ ComingInv /\ ApartInv

(* A fresh pair stays fresh until it is stored.                             *)
LEMMA StaysFresh ==
  ASSUME PairFacts, SpendsKept, UsedKept, issued' \in {issued, issued + 1},
         NEW p, Fresh(p), refresh' # p
  PROVE  /\ p \in 1 .. issued'
         /\ p \notin used'
         /\ \A r \in Request : request'[r].spends # p
BY DEF PairFacts, Fresh, SpendsKept, UsedKept, NoPair

LEMMA PairsTyped ==
  ASSUME PairFacts, SpendsKept, UsedKept,
         issued' \in {issued, issued + 1}, refresh' \in 0 .. issued'
  PROVE  PairsInv' /\ issued' \in Nat
<1>1. \A r \in Request : request[r].spends \in 0 .. issued'
  BY DEF PairFacts, PairsInv
<1>2. \A r \in Request : request'[r].spends \in 0 .. issued'
  BY <1>1 DEF PairFacts, PairsInv, SpendsKept, NoPair
<1>3. ASSUME NEW p \in used' PROVE p \in 1 .. issued'
  <2>1. CASE p \in used
    BY <2>1 DEF PairFacts, PairsInv
  <2>2. CASE p # NoPair /\ \E r \in Request : request[r].spends = p
    BY <1>1, <2>2 DEF PairFacts, NoPair
  <2> QED
    BY <1>3, <2>1, <2>2 DEF UsedKept
<1> QED
  BY <1>2, <1>3 DEF PairFacts, PairsInv

LEMMA QuietPairs ==
  ASSUME PairFacts, Quiet
  PROVE  PairFacts'
<1>1. PairsInv' /\ issued' \in Nat
  BY PairsTyped DEF PairFacts, PairsInv, Quiet, NoPair
<1>2. ASSUME NEW p, Fresh(p)
      PROVE  /\ p \in 1 .. issued' /\ p \notin used' /\ p # refresh'
             /\ \A r \in Request : request'[r].spends # p
  <2>1. p # refresh'
    BY <1>2 DEF Fresh, Quiet, NoPair
  <2> QED
    BY <1>2, <2>1, StaysFresh DEF Quiet
<1>3. ComingInv'
  BY <1>2 DEF PairFacts, ComingInv, Fresh, Quiet, Keeps, KeepsCall
<1>4. ApartInv'
  BY DEF PairFacts, ApartInv, Quiet, Keeps, KeepsCall
<1> QED
  BY <1>1, <1>3, <1>4 DEF PairFacts

LEMMA StoredPairs ==
  ASSUME PairFacts, Stores
  PROVE  PairFacts'
<1>1. Fresh(refresh')
  BY DEF PairFacts, ComingInv, Stores
<1>2. PairsInv' /\ issued' \in Nat
  BY <1>1, PairsTyped DEF PairFacts, Stores, Fresh
<1>3. ASSUME NEW r \in Request, Granted(r)'
      PROVE  Fresh(request[r].pair)'
  <2> DEFINE p == request[r].pair
  <2>1. Granted(r) /\ request'[r].pair = p /\ Fresh(p)
    BY <1>3 DEF PairFacts, ComingInv, Stores, Keeps
  <2>2. refresh' # p
    BY <1>3, <2>1 DEF PairFacts, ApartInv, Stores
  <2>3. /\ p \in 1 .. issued' /\ p \notin used'
        /\ \A s \in Request : request'[s].spends # p
    BY <2>1, <2>2, StaysFresh DEF Stores
  <2> QED
    BY <2>1, <2>2, <2>3 DEF Fresh
<1>4. ASSUME NEW t \in Tab, NEW w \in Way, Brought(t, w)'
      PROVE  Fresh(signing[t][w].pair)'
  <2> DEFINE p == signing[t][w].pair
  <2>1. Brought(t, w) /\ signing'[t][w].pair = p /\ Fresh(p)
    BY <1>4 DEF PairFacts, ComingInv, Stores, KeepsCall
  <2>2. refresh' # p
    BY <1>4, <2>1 DEF PairFacts, ApartInv, Stores
  <2>3. /\ p \in 1 .. issued' /\ p \notin used'
        /\ \A s \in Request : request'[s].spends # p
    BY <2>1, <2>2, StaysFresh DEF Stores
  <2> QED
    BY <2>1, <2>2, <2>3 DEF Fresh
<1>5. ApartInv'
  BY DEF PairFacts, ApartInv, Stores, Keeps, KeepsCall
<1> QED
  BY <1>2, <1>3, <1>4, <1>5 DEF PairFacts, ComingInv

LEMMA IssuedPairs ==
  ASSUME PairFacts, Issues
  PROVE  PairFacts'
<1>1. PICK new \in Nat : new = issued + 1
  BY DEF PairFacts
<1>2. PairsInv' /\ issued' \in Nat
  BY PairsTyped DEF PairFacts, PairsInv, Issues
<1>3. Fresh(new)'
  <2>1. \A r \in Request : request[r].spends # new
    BY <1>1 DEF PairFacts, PairsInv
  <2>2. new \notin used /\ new # refresh
    BY <1>1 DEF PairFacts, PairsInv
  <2> QED
    BY <1>1, <2>1, <2>2 DEF PairFacts, Fresh, Issues, SpendsKept, UsedKept, NoPair
<1>4. ASSUME NEW p, Fresh(p)
      PROVE  p # new /\ Fresh(p)'
  <2>1. p # refresh'
    BY <1>4 DEF Fresh, Issues
  <2>2. p # new
    BY <1>1, <1>4 DEF Fresh, PairFacts
  <2> QED
    BY <1>4, <2>1, <2>2, StaysFresh DEF Fresh, Issues
<1>5. ASSUME NEW r \in Request,
             request'[r].pair = new,
             \A s \in Request \ {r} : Keeps(s),
             \A t \in Tab, w \in Way : KeepsCall(t, w)
      PROVE  ComingInv' /\ ApartInv'
  <2>1. ComingInv'
    BY <1>3, <1>4, <1>5 DEF PairFacts, ComingInv, Keeps, KeepsCall, Fresh
  <2>2. ApartInv'
    BY <1>4, <1>5 DEF PairFacts, ComingInv, ApartInv, Keeps, KeepsCall
  <2> QED
    BY <2>1, <2>2
<1>6. ASSUME NEW t \in Tab, NEW w \in Way,
             signing'[t][w].pair = new,
             \A r \in Request : Keeps(r),
             \A u \in Tab, v \in Way : (u # t \/ v # w) => KeepsCall(u, v)
      PROVE  ComingInv' /\ ApartInv'
  <2>1. ComingInv'
    BY <1>3, <1>4, <1>6 DEF PairFacts, ComingInv, Keeps, KeepsCall, Fresh
  <2>2. ApartInv'
    BY <1>4, <1>6 DEF PairFacts, ComingInv, ApartInv, Keeps, KeepsCall
  <2> QED
    BY <2>1, <2>2
<1> QED
  BY <1>1, <1>2, <1>5, <1>6 DEF PairFacts, Issues

LEMMA PairsStay ==
  ASSUME PairFacts, PairStep
  PROVE  PairFacts'
BY QuietPairs, StoredPairs, IssuedPairs DEF PairStep

-----------------------------------------------------------------------------
(* The steps of the session and of the sign-in pages.                       *)

SpentInv == SpendsInv /\ SpentTokenLeaves

SignInFacts == SignInTypeOK /\ PairFacts /\ SpentInv

RequestsRest == request' = request /\ used' = used /\ forgotten' = forgotten

LEMMA RestKeepsPairs ==
  ASSUME SignInFacts, RequestsRest
  PROVE  SpendsKept /\ UsedKept /\ \A r \in Request : Keeps(r)
BY DEF RequestsRest, SpendsKept, UsedKept, Keeps, Granted

LEMMA SameTokens ==
  ASSUME SignInFacts, RequestsRest, refresh' \notin used, refresh' = NoPair \/ Fresh(refresh')
  PROVE  SpentInv'
BY DEF SignInFacts, SpentInv, SpendsInv, SpentTokenLeaves, RequestsRest, Fresh, NoPair

LEMMA NoPairUnused ==
  ASSUME PairFacts
  PROVE  NoPair \notin used
BY DEF PairFacts, PairsInv, NoPair

(* What goes on in the tabs alone.                                          *)
LEMMA RestingStep ==
  ASSUME SignInFacts, RequestsRest, storage' = storage
  PROVE  SpentInv'
BY DEF SignInFacts, SpentInv, SpendsInv, SpentTokenLeaves, RequestsRest, storage, Under

(* A page load: what it cuts off is remembered.                             *)
LEMMA KillStep ==
  ASSUME SignInFacts, NEW t \in Tab, Kill(t), issued' = issued,
         refresh' \in {refresh, NoPair}
  PROVE  SpentInv' /\ SpendsKept /\ UsedKept /\ \A r \in Request : Keeps(r)
<1> USE DEF SignInFacts
<1>1. \A r \in Request : request'[r] \in {request[r], NoRequest}
  BY DEF Kill
<1>2. /\ NoRequest.stage = "idle"
      /\ NoRequest.spends = NoPair
  BY DEF NoRequest
<1>3. SpendsKept /\ \A r \in Request : Keeps(r)
  BY <1>1, <1>2 DEF SpendsKept, Keeps, Granted
<1>4. UsedKept
  BY DEF Kill, UsedKept
<1>5. SpendsInv'
  BY <1>1, <1>2 DEF SpentInv, SpendsInv, NoPair
<1>6. SpentTokenLeaves'
  <2>1. SUFFICES ASSUME refresh' \in used', refresh' \notin forgotten'
                 PROVE  \E r \in Request : Under(r)' /\ request'[r].spends = refresh'
    BY DEF SpentTokenLeaves
  <2>2. refresh' # NoPair /\ refresh' = refresh
    BY <1>4, <2>1, NoPairUnused DEF UsedKept
  <2>3. refresh \in used
    BY <2>1, <2>2 DEF Kill
  <2>4. refresh \notin forgotten
    BY <2>1, <2>2 DEF Kill
  <2>5. PICK r \in Request : Under(r) /\ request[r].spends = refresh
    BY <2>3, <2>4 DEF SpentInv, SpentTokenLeaves
  <2>6. request[r].stage \in {"refreshing", "checked", "granted", "failed"}
    <3>1. request[r].stage \in Stage
      BY RequestTypes DEF SignInTypeOK
    <3> QED
      BY <3>1, <2>2, <2>5 DEF Stage, Under, SpentInv, SpendsInv
  <2>7. request[r].tab # t
    BY <2>1, <2>2, <2>5, <2>6 DEF Kill
  <2>8. request'[r] = request[r]
    BY <2>7 DEF Kill
  <2> QED
    BY <2>2, <2>5, <2>8 DEF Under
<1> QED
  BY <1>3, <1>4, <1>5, <1>6 DEF SpentInv

(* The steps of requestJSON: one request changes, unless the page is loaded.  *)
LEMMA FetchStepKeeps ==
  ASSUME SignInFacts, NEW r \in Request, Fetch(r),
         \A t \in Tab, w \in Way : KeepsCall(t, w)
  PROVE  SpentInv' /\ PairStep
<1> USE DEF SignInFacts, serverVars, storage
<1>f. request \in [Request -> Slot] /\ request[r].stage \in Stage
  BY RequestTypes DEF SignInTypeOK, SessionTypeOK
<1>p. /\ NoRequest.stage = "idle" /\ NoRequest.spends = NoPair
      /\ \A s \in Request : Granted(s) => Fresh(request[s].pair)
      /\ NoPair \notin used
  BY NoPairUnused DEF NoRequest, PairFacts, ComingInv
<1>1. CASE Answered(r) \/ RepeatAnswered(r)
  <2>1. /\ request' = [request EXCEPT ![r] = NoRequest]
        /\ UNCHANGED <<issued, used, access, refresh, forgotten>>
        /\ request[r].stage \in {"sent", "repeated"}
    BY <1>1 DEF Answered, RepeatAnswered, Done
  <2>2. Quiet
    BY <1>f, <1>p, <2>1 DEF Quiet, SpendsKept, UsedKept, Keeps, Granted
  <2>3. SpendsInv'
    BY <1>f, <1>p, <2>1 DEF SpentInv, SpendsInv, NoPair
  <2>4. SpentTokenLeaves'
    BY <1>f, <1>p, <2>1 DEF SpentInv, SpendsInv, SpentTokenLeaves, Under
  <2> QED
    BY <2>2, <2>3, <2>4 DEF PairStep, SpentInv
<1>2. CASE Unauthorized(r)
  <2>1. /\ request[r].stage = "sent"
        /\ UNCHANGED <<issued, used, access, refresh, forgotten>>
        /\ \A s \in Request \ {r} : request'[s] = request[s]
    BY <1>2, <1>f DEF Unauthorized, Done
  <2>2. \/ request'[r] = NoRequest
        \/ /\ request'[r].spends = refresh
           /\ refresh = NoPair => request'[r].stage = "failed"
           /\ refresh # NoPair => request'[r].stage = "refreshing"
    BY <1>2, <1>f DEF Unauthorized, Done, Slot
  <2>3. Quiet
    BY <1>p, <2>1, <2>2 DEF Quiet, SpendsKept, UsedKept, Keeps, Granted
  <2>4. SpendsInv'
    BY <1>p, <2>1, <2>2 DEF SpentInv, SpendsInv, NoPair
  <2>5. SpentTokenLeaves'
    BY <1>p, <2>1, <2>2 DEF SpentInv, SpendsInv, SpentTokenLeaves, Under
  <2> QED
    BY <2>3, <2>4, <2>5 DEF PairStep, SpentInv
<1>3. CASE RefreshCheck(r) \/ RefreshLost(r) \/ RepeatRefused(r)
  <2>1. /\ request[r].stage \in {"refreshing", "granted", "repeated"}
        /\ UNCHANGED <<issued, used, access, refresh, forgotten>>
        /\ \A s \in Request \ {r} : request'[s] = request[s]
        /\ request'[r].spends = request[r].spends
        /\ request'[r].stage \in {"failed", "checked"}
    BY <1>3, <1>f DEF RefreshCheck, RefreshLost, RepeatRefused, Slot
  <2>2. Quiet
    BY <2>1 DEF Quiet, SpendsKept, UsedKept, Keeps, Granted
  <2>3. SpendsInv'
    BY <2>1 DEF SpentInv, SpendsInv, NoPair
  <2>4. SpentTokenLeaves'
    BY <2>1 DEF SpentInv, SpendsInv, SpentTokenLeaves, Under
  <2> QED
    BY <2>2, <2>3, <2>4 DEF PairStep, SpentInv
<1>4. CASE RefreshRotate(r)
  <2>1. /\ request[r].stage = "checked"
        /\ issued' = issued + 1
        /\ UNCHANGED <<access, refresh, forgotten>>
        /\ used' = used \cup {request[r].spends}
        /\ \A s \in Request \ {r} : request'[s] = request[s]
    BY <1>4, <1>f DEF RefreshRotate
  <2>2. /\ request'[r].spends = request[r].spends
        /\ request'[r].stage = "granted"
        /\ request'[r].pair = issued + 1
    BY <1>4, <1>f DEF RefreshRotate, Slot
  <2>3. Issues
    <3>1. request[r].spends # NoPair
      BY <2>1 DEF SpentInv, SpendsInv
    <3> QED
      BY <2>1, <2>2, <3>1 DEF Issues, SpendsKept, UsedKept, Keeps, Granted
  <2>4. SpendsInv'
    BY <2>1, <2>2 DEF SpentInv, SpendsInv, NoPair
  <2>5. SpentTokenLeaves'
    BY <2>1, <2>2 DEF SpentInv, SpendsInv, SpentTokenLeaves, Under
  <2> QED
    BY <2>3, <2>4, <2>5 DEF PairStep, SpentInv
<1>5. CASE Repeat(r)
  <2>1. /\ request[r].stage = "granted"
        /\ UNCHANGED <<issued, used, forgotten>>
        /\ refresh' = request[r].pair
        /\ \A s \in Request \ {r} : request'[s] = request[s]
        /\ request'[r].spends = request[r].spends
        /\ request'[r].stage = "repeated"
    BY <1>5, <1>f DEF Repeat, StoreRefreshed, StorePair, Slot
  <2>2. Fresh(refresh')
    BY <1>p, <2>1 DEF Granted
  <2>3. Stores
    BY <2>1 DEF Stores, SpendsKept, UsedKept, Keeps, Granted
  <2>4. SpendsInv'
    BY <2>1, <2>2 DEF SpentInv, SpendsInv, NoPair, Fresh
  <2>5. SpentTokenLeaves'
    BY <2>1, <2>2 DEF SpentTokenLeaves, Fresh
  <2> QED
    BY <2>3, <2>4, <2>5 DEF PairStep, SpentInv
<1>6. CASE GiveUp(r)
  <2>1. /\ issued' = issued /\ refresh' = NoPair
        /\ request[r].stage = "failed"
    BY <1>6 DEF GiveUp, ClearToken
  <2>2. CASE GaveUp(r)
    <3>1. Kill(request[r].tab) /\ request[r].tab \in Tab
      BY <1>6, <2>2, RequestTypes DEF GiveUp, SignInTypeOK
    <3> QED
      BY <2>1, <3>1, KillStep DEF Quiet, PairStep
  <2>3. CASE ~GaveUp(r)
    <3>1. request' = [request EXCEPT ![r] = NoRequest] /\ UNCHANGED <<used, forgotten>>
      BY <1>6, <2>3 DEF GiveUp, Done
    <3>2. Quiet
      BY <1>f, <1>p, <2>1, <3>1 DEF Quiet, SpendsKept, UsedKept, Keeps, Granted
    <3>3. SpendsInv'
      BY <1>f, <1>p, <2>1, <3>1 DEF SpentInv, SpendsInv, NoPair
    <3>4. SpentTokenLeaves'
      BY <1>p, <2>1, <3>1 DEF SpentTokenLeaves
    <3> QED
      BY <3>2, <3>3, <3>4 DEF PairStep, SpentInv
  <2> QED
    BY <2>2, <2>3
<1> QED
  BY <1>1, <1>2, <1>3, <1>4, <1>5, <1>6 DEF Fetch

(* Leaving a page, or loading it, brings no sign-in to an end that was not  *)
(* begun.                                                                   *)
LEMMA RemountKeeps ==
  ASSUME SignInTypeOK, NEW t \in Tab, Remount(t)
  PROVE  \A u \in Tab, w \in Way : KeepsCall(u, w)
<1>1. ASSUME NEW w \in Way
      PROVE  /\ [signing[t][w] EXCEPT !.own = FALSE].stage = signing[t][w].stage
             /\ [signing[t][w] EXCEPT !.own = FALSE].pair = signing[t][w].pair
  BY DEF SignInTypeOK, SignInCall
<1> QED
  BY <1>1 DEF SignInTypeOK, Remount, KeepsCall, Brought

LEMMA LoadKeeps ==
  ASSUME SignInTypeOK, NEW t \in Tab, NEW k \in Kind, Load(t, k)
  PROVE  \A u \in Tab, w \in Way : KeepsCall(u, w)
BY DEF SignInTypeOK, Load, NoSignIns, NoSignIn, KeepsCall, Brought

LEMMA TabStepKeeps ==
  ASSUME SignInFacts, NEW t \in Tab,
         \/ \E p \in Page : OpenPage(t, p)
         \/ ReloadPage(t) \/ LogOutHere(t) \/ OpenLink(t) \/ TryAgain(t)
  PROVE  SpentInv' /\ PairStep
<1> USE DEF SignInFacts, serverVars, storage
<1>1. ASSUME issued' = issued, RequestsRest, refresh' \in {refresh, NoPair},
             \A u \in Tab, w \in Way : KeepsCall(u, w)
      PROVE  PairStep
  BY <1>1, RestKeepsPairs DEF Quiet, PairStep
<1>2. CASE \E p \in Page : OpenPage(t, p)
  <2>1. /\ RequestsRest /\ issued' = issued /\ refresh' = refresh
        /\ storage' = storage /\ Remount(t)
    BY <1>2 DEF OpenPage, Open, RequestsRest
  <2> QED
    BY <1>1, <2>1, RestingStep, RemountKeeps
<1>3. CASE ReloadPage(t)
  <2>1. /\ Kill(t) /\ issued' = issued /\ refresh' = refresh
        /\ \E k \in Kind : Load(t, k)
    BY <1>3 DEF ReloadPage, LoadAnew, Kind
  <2> QED
    BY <2>1, KillStep, LoadKeeps DEF Quiet, PairStep
<1>4. CASE LogOutHere(t)
  <2>1. RequestsRest /\ issued' = issued /\ refresh' = NoPair /\ Remount(t)
    BY <1>4 DEF LogOutHere, LogOut, ClearToken, RequestsRest
  <2> QED
    BY <1>1, <2>1, NoPairUnused, SameTokens, RemountKeeps
<1>5. CASE OpenLink(t)
  <2>1. Kill(t) /\ issued' = issued /\ refresh' = refresh
    BY <1>5 DEF OpenLink
  <2>2. \A u \in Tab, w \in Way : KeepsCall(u, w)
    <3> DEFINE calls == [NoSignIns EXCEPT
                 !["link"] = [stage |-> "sent", own |-> TRUE, pair |-> NoPair]]
    <3>1. \A w \in Way : calls[w].stage # "granted"
      BY DEF NoSignIns, NoSignIn
    <3>2. signing' = [signing EXCEPT ![t] = calls]
      BY <1>5 DEF OpenLink
    <3> HIDE DEF calls
    <3> QED
      BY <3>1, <3>2 DEF SignInTypeOK, KeepsCall, Brought
  <2> QED
    BY <2>1, <2>2, KillStep DEF Quiet, PairStep
<1>6. CASE TryAgain(t)
  <2>1. /\ RequestsRest /\ issued' = issued /\ refresh' = refresh
        /\ storage' = storage /\ signing' = signing
    BY <1>6 DEF TryAgain, sessionVars, RequestsRest
  <2> QED
    BY <1>1, <2>1, RestingStep DEF KeepsCall, Brought
<1> QED
  BY <1>2, <1>3, <1>4, <1>5, <1>6

LEMMA RequestStepKeeps ==
  ASSUME SignInFacts, NEW r \in Request,
         FetchStep(r) \/ \E t \in Tab : SendFrom(r, t)
  PROVE  SpentInv' /\ PairStep
<1> USE DEF SignInFacts
<1>1. CASE FetchStep(r)
  <2>1. \A u \in Tab, w \in Way : KeepsCall(u, w)
    <3>1. request[r].tab \in Tab
      BY RequestTypes DEF SignInTypeOK
    <3> QED
      BY <1>1, <3>1, LoadKeeps DEF FetchStep, signInVars, KeepsCall, Brought, Kind
  <2> QED
    BY <1>1, <2>1, FetchStepKeeps DEF FetchStep
<1>2. ASSUME NEW t \in Tab, SendFrom(r, t)
      PROVE  SpentInv' /\ PairStep
  <2>1. /\ request[r].stage = "idle"
        /\ UNCHANGED <<issued, used, access, refresh, forgotten, signing>>
        /\ \A s \in Request \ {r} : request'[s] = request[s]
        /\ request'[r].stage = "sent" /\ request'[r].spends = NoPair
    BY <1>2 DEF SendFrom, Send, Under, signInVars, serverVars, storage, SignInTypeOK,
       SessionTypeOK
  <2>2. Quiet
    BY <2>1 DEF Quiet, SpendsKept, UsedKept, Keeps, KeepsCall, Granted, Brought
  <2>3. SpendsInv'
    BY <2>1 DEF SpentInv, SpendsInv, NoPair
  <2>4. SpentTokenLeaves'
    BY <2>1 DEF SpentInv, SpendsInv, SpentTokenLeaves, Under
  <2> QED
    BY <2>2, <2>3, <2>4 DEF PairStep, SpentInv
<1> QED
  BY <1>1, <1>2

LEMMA CallStepKeeps ==
  ASSUME SignInFacts, NEW t \in Tab, NEW w \in Way,
         Submit(t, w) \/ CallStep(t, w) \/ MailStep(t)
  PROVE  SpentInv' /\ PairStep
<1> USE DEF SignInFacts, serverVars, storage
<1>s. signing \in [Tab -> [Way -> SignInCall]]
  BY DEF SignInTypeOK
(* A call that changes, and brings nothing by it.                           *)
<1>1. ASSUME NEW v \in Way, NEW c, signing' = [signing EXCEPT ![t][v] = c],
             c.stage # "granted" \/ v = "email"
      PROVE  \A u \in Tab, x \in Way : KeepsCall(u, x)
  BY <1>s, <1>1 DEF KeepsCall, Brought
<1>2. ASSUME NEW v \in Way, UNCHANGED sessionVars,
             \/ signing' = [signing EXCEPT ![t][v].stage = "refused"]
             \/ Over(t, v)
             \/ signing' = [signing EXCEPT ![t][v] =
                              [stage |-> "sent", own |-> TRUE, pair |-> NoPair]]
             \/ v = "email" /\ signing' = [signing EXCEPT ![t][v].stage = "granted"]
      PROVE  SpentInv' /\ PairStep
  <2>1. \A new : [signing[t][v] EXCEPT !.stage = new].stage = new
    BY <1>s DEF SignInCall
  <2>2. NoSignIn.stage = "none"
    BY DEF NoSignIn
  <2>3. \A u \in Tab, x \in Way : KeepsCall(u, x)
    <3>1. CASE signing' = [signing EXCEPT ![t][v].stage = "refused"]
      BY <1>1, <2>1, <3>1
    <3>2. CASE Over(t, v)
      BY <1>1, <2>2, <3>2 DEF Over
    <3>3. CASE signing' = [signing EXCEPT ![t][v] =
                             [stage |-> "sent", own |-> TRUE, pair |-> NoPair]]
      BY <1>1, <3>3
    <3>4. CASE v = "email" /\ signing' = [signing EXCEPT ![t][v].stage = "granted"]
      BY <1>1, <3>4
    <3> QED
      BY <1>2, <3>1, <3>2, <3>3, <3>4
  <2>4. RequestsRest /\ issued' = issued /\ refresh' = refresh /\ storage' = storage
    BY <1>2 DEF sessionVars, RequestsRest
  <2> QED
    BY <2>3, <2>4, RestKeepsPairs, RestingStep DEF Quiet, PairStep
<1>3. CASE Submit(t, w)
  BY <1>2, <1>3 DEF Submit
<1>4. CASE Denies(t, w)
  BY <1>2, <1>4 DEF Denies
<1>5. CASE SignInFailed(t, w)
  BY <1>2, <1>5 DEF SignInFailed
<1>6. CASE Mails(t)
  BY <1>2, <1>6 DEF Mails, Way
<1>7. CASE LinkSent(t)
  BY <1>2, <1>7 DEF LinkSent, Way
<1>8. CASE LinkLeft(t)
  BY <1>2, <1>8 DEF LinkLeft, Way
<1>9. CASE Grants(t, w)
  <2>1. /\ RequestsRest /\ issued' = issued + 1 /\ refresh' = refresh
        /\ storage' = storage
    BY <1>9 DEF Grants, RequestsRest
  <2>2. signing'[t][w].pair = issued + 1
    BY <1>s, <1>9 DEF Grants, SignInCall
  <2>3. \A u \in Tab, v \in Way : (u # t \/ v # w) => KeepsCall(u, v)
    BY <1>s, <1>9 DEF Grants, KeepsCall, Brought
  <2> QED
    BY <2>1, <2>2, <2>3, RestKeepsPairs, RestingStep DEF Issues, PairStep
<1>10. CASE SignedInBy(t, w)
  <2>1. /\ RequestsRest /\ issued' = issued /\ refresh' = signing[t][w].pair
        /\ Brought(t, w)
    BY <1>10 DEF SignedInBy, StorePair, RequestsRest, Brought
  <2>2. Fresh(refresh')
    BY <2>1 DEF PairFacts, ComingInv
  <2>3. /\ \A u \in Tab, v \in Way : KeepsCall(u, v)
        /\ ~Brought(t, w)'
    <3>1. ASSUME NEW v \in Way
          PROVE  /\ [signing[t][v] EXCEPT !.own = FALSE].stage = signing[t][v].stage
                 /\ [signing[t][v] EXCEPT !.own = FALSE].pair = signing[t][v].pair
      BY <1>s DEF SignInCall
    <3>2. signing' = [signing EXCEPT ![t] =
            [v \in Way |-> IF v = w THEN NoSignIn ELSE [signing[t][v] EXCEPT !.own = FALSE]]]
      BY <1>s, <1>10 DEF SignedInBy
    <3>3. NoSignIn.stage = "none"
      BY DEF NoSignIn
    <3> QED
      BY <1>s, <3>1, <3>2, <3>3 DEF KeepsCall, Brought
  <2> QED
    BY <2>1, <2>2, <2>3, RestKeepsPairs, SameTokens DEF Stores, PairStep, Fresh
<1> QED
  BY <1>3, <1>4, <1>5, <1>6, <1>7, <1>8, <1>9, <1>10 DEF CallStep, MailStep

LEMMA SignInFactsKept ==
  ASSUME SignInFacts, [SignInNext]_browserVars
  PROVE  SignInFacts'
<1>1. SignInTypeOK'
  BY SignInStepTypes DEF SignInFacts, SpentInv
<1>2. "link" \in Way
  BY DEF Way
<1>3. CASE SignInNext
  <2>1. SpentInv' /\ PairStep
    BY <1>2, <1>3, TabStepKeeps, RequestStepKeeps, CallStepKeeps DEF SignInNext
  <2> QED
    BY <1>1, <2>1, PairsStay DEF SignInFacts
<1>4. CASE UNCHANGED browserVars
  <2> USE DEF SignInFacts
  <2>1. RequestsRest /\ UNCHANGED <<issued, access, refresh, signing>>
    BY <1>4 DEF browserVars, sessionVars, signInVars, serverVars, storage, RequestsRest
  <2>2. Quiet
    BY <2>1, RestKeepsPairs DEF Quiet, KeepsCall, Brought
  <2> QED
    BY <1>1, <2>1, <2>2, PairsStay, RestingStep DEF PairStep, storage
<1> QED
  BY <1>3, <1>4

LEMMA SignInFactsInit == SignInInit => SignInFacts
<1> SUFFICES ASSUME SignInInit PROVE SignInFacts
  OBVIOUS
<1> USE NewSlotTypes, SessionAssumption DEF SignInInit, SessionInit
<1>1. SignInTypeOK
  BY DEF SignInTypeOK, SessionTypeOK, NoPair, Pair, Page, Kind
<1>2. NoRequest.stage = "idle" /\ NoRequest.spends = NoPair
  BY DEF NoRequest
<1>3. \A t \in Tab, w \in Way : signing[t][w].stage = "none"
  BY DEF NoSignIns, NoSignIn
<1>4. PairFacts
  BY <1>2, <1>3 DEF PairFacts, PairsInv, ComingInv, ApartInv, Granted, Brought, NoPair
<1>5. SpentInv
  BY <1>2 DEF SpentInv, SpendsInv, SpentTokenLeaves
<1> QED
  BY <1>1, <1>4, <1>5 DEF SignInFacts

LEMMA SignInFactsInvariant == SignInSpec => []SignInFacts
BY SignInFactsInit, SignInFactsKept, PTL DEF SignInSpec

(* SpentLeaves: whatever the interleaving of requests, sign-ins and         *)
(* sign-outs in any number of tabs, a refresh token that was exchanged is   *)
(* about to leave local storage, unless a page load cut its request off.    *)
THEOREM SpentLeaves == SignInSpec => []SpentTokenLeaves
<1>1. SignInFacts => SpentTokenLeaves
  BY DEF SignInFacts, SpentInv
<1> QED
  BY <1>1, SignInFactsInvariant, PTL

(* LinkOnce: an emailed link opens one session, in however many tabs it is  *)
(* opened at once: it opens one by being used.                              *)
THEOREM LinkOnce == SignInSpec => []LinkOpensOnce
<1>1. SignInInit => LinkInv
  BY DEF SignInInit, LinkInv, LinkOpensOnce
<1>2. ASSUME LinkInv, [SignInNext]_browserVars
      PROVE  LinkInv'
  <2>1. CASE UNCHANGED <<link, opened>>
    BY <1>2, <2>1 DEF LinkInv, LinkOpensOnce
  <2>2. ASSUME NEW t \in Tab, NEW w \in Way, Grants(t, w)
        PROVE  LinkInv'
    BY <1>2, <2>2 DEF Grants, LinkAlive, LinkInv, LinkOpensOnce
  <2>3. ASSUME NEW t \in Tab, Mails(t)
        PROVE  LinkInv'
    BY <1>2, <2>3 DEF Mails, LinkInv, LinkOpensOnce
  <2>4. ASSUME NEW r \in Request,
               FetchStep(r) \/ \E t \in Tab : SendFrom(r, t)
        PROVE  UNCHANGED <<link, opened>>
    BY <2>4 DEF FetchStep, SendFrom, signInVars
  <2>5. ASSUME NEW t \in Tab,
               \/ \E p \in Page : OpenPage(t, p)
               \/ ReloadPage(t) \/ LogOutHere(t) \/ OpenLink(t) \/ TryAgain(t)
        PROVE  UNCHANGED <<link, opened>>
    BY <2>5 DEF OpenPage, Remount, ReloadPage, LogOutHere, OpenLink, TryAgain
  <2>6. ASSUME NEW t \in Tab, NEW w \in Way,
               \/ Submit(t, w) \/ Denies(t, w) \/ SignedInBy(t, w) \/ SignInFailed(t, w)
               \/ LinkSent(t) \/ LinkLeft(t)
        PROVE  UNCHANGED <<link, opened>>
    BY <2>6 DEF Submit, Denies, SignedInBy, SignInFailed, LinkSent, LinkLeft
  <2>7. UNCHANGED browserVars => UNCHANGED <<link, opened>>
    BY DEF browserVars, signInVars
  <2>8. "link" \in Way
    BY DEF Way
  <2> QED
    BY <1>2, <2>1, <2>2, <2>3, <2>4, <2>5, <2>6, <2>7, <2>8
       DEF SignInNext, CallStep, MailStep
<1>3. LinkInv => LinkOpensOnce
  BY DEF LinkInv
<1> QED
  BY <1>1, <1>2, <1>3, PTL DEF SignInSpec

-----------------------------------------------------------------------------
(* The page of a subscription.                                              *)

(* As long as nothing has crossed, a load is alone with the status, and     *)
(* what it brings is the truth.                                             *)
Straight == ~seen.crossed /\ ~seen.remote

LoadInv ==
  Straight => \A s \in Script : script[s].op = "load" =>
    /\ \A t \in Script \ {s} : script[t].op \notin {"load", "status"}
    /\ script[s].stage = "granted" => script[s].choice = sub.status

(* Then the page shows the truth, or loads it, or knows that it must.       *)
TruthInv ==
  Straight /\ ~seen.doubt =>
    \/ page.shown = sub.status
    \/ \E s \in Script : script[s].op = "load"
    \/ \E s \in Script : script[s].op = "status" /\ script[s].stage # "sent"

(* As long as nobody has lowered it for another, the flag is up while a     *)
(* handler is under way that raised it ...                                  *)
FlagInv ==
  /\ \A s \in Script : script[s].op \in {"status", "start", "save"} => script[s].closing
  /\ ~seen.freed => \A s \in Script : script[s].closing => page.submitting

(* ... so that a change under way is the latest press.                      *)
PressInv ==
  /\ seen.applied <= seen.pressed
  /\ \A s \in Script : script[s].op = "status" =>
       script[s].choice \in Status /\ script[s].press <= seen.pressed
  /\ ~seen.freed =>
       \A s \in Script : script[s].op = "status" => script[s].press = seen.pressed

PageInv == SubscriptionTypeOK /\ LoadInv /\ TruthInv /\ FlagInv /\ PressInv

LEMMA IdleTypes ==
  /\ Idle \in ScriptState
  /\ Idle.op = "none" /\ Idle.stage = "sent" /\ ~Idle.closing
BY SubscriptionAssumption DEF Idle, ScriptState, HandlerOp, NoSetup, Status

LEMMA HandlerTypes ==
  ASSUME SubscriptionTypeOK, NEW s \in Script
  PROVE  /\ script[s] \in ScriptState
         /\ script[s].op \in HandlerOp /\ script[s].stage \in {"sent", "granted", "failed"}
         /\ script[s].choice \in Status \cup {"none"}
         /\ script[s].press \in 0 .. Presses /\ script[s].setup \in 0 .. Cards
         /\ script[s].closing \in BOOLEAN
BY DEF SubscriptionTypeOK, ScriptState

LEMMA PageTypes ==
  ASSUME SubscriptionTypeOK
  PROVE  /\ page.shown \in Status \cup {"none"} /\ page.submitting \in BOOLEAN
         /\ page.error \in BOOLEAN /\ page.secret \in 0 .. Cards /\ page.dialog \in BOOLEAN
         /\ seen.pressed \in 0 .. Presses /\ seen.applied \in 0 .. Presses
         /\ seen.freed \in BOOLEAN /\ seen.crossed \in BOOLEAN
         /\ seen.remote \in BOOLEAN /\ seen.doubt \in BOOLEAN
         /\ sub.status \in Status /\ sub.card \in 0 .. Cards
BY DEF SubscriptionTypeOK, PageState, History

(* One handler changes, to something well typed.                            *)
LEMMA SetScript ==
  ASSUME SubscriptionTypeOK, NEW s \in Script, NEW what \in ScriptState,
         script' = [script EXCEPT ![s] = what]
  PROVE  /\ script' \in [Script -> ScriptState]
         /\ script'[s] = what
         /\ \A t \in Script \ {s} : script'[t] = script[t]
BY DEF SubscriptionTypeOK

(* What the server carries out.                                             *)
LEMMA Carried ==
  ASSUME SubscriptionTypeOK, NEW s \in Script, NEW what \in ScriptState,
         CarriedOut(s, what)
  PROVE  /\ script' \in [Script -> ScriptState]
         /\ script'[s].stage \in {"granted", "failed"}
         /\ script'[s].op = what.op /\ script'[s].choice = what.choice
         /\ script'[s].press = what.press /\ script'[s].closing = what.closing
         /\ \A t \in Script \ {s} : script'[t] = script[t]
<1>1. ASSUME NEW g \in {"granted", "failed"}
      PROVE  /\ [what EXCEPT !.stage = g] \in ScriptState
             /\ [what EXCEPT !.stage = g].stage = g
             /\ [what EXCEPT !.stage = g].op = what.op
             /\ [what EXCEPT !.stage = g].choice = what.choice
             /\ [what EXCEPT !.stage = g].press = what.press
             /\ [what EXCEPT !.stage = g].closing = what.closing
  BY DEF ScriptState
<1>2. CASE script' = [script EXCEPT ![s] = [what EXCEPT !.stage = "granted"]]
  BY <1>1, <1>2, SetScript
<1>3. CASE script' = [script EXCEPT ![s] = [what EXCEPT !.stage = "failed"]]
  BY <1>1, <1>3, SetScript
<1> QED
  BY <1>2, <1>3 DEF CarriedOut

(* The buyer's handlers.                                                    *)
LEMMA HandlesKeeps ==
  ASSUME PageInv, NEW s \in Script, Handles(s)
  PROVE  PageInv'
<1> USE PageTypes, HandlerTypes DEF PageInv
<1>f. script[s].op = "none"
  BY DEF Handles, RetryLoad, SetStatus, StartUpdateCard, ConfirmCard, Free
<1>1. CASE RetryLoad(s)
  <2> DEFINE new == [Idle EXCEPT !.op = "load"]
  <2>1. new \in ScriptState /\ new.op = "load" /\ new.stage = "sent" /\ ~new.closing
    BY IdleTypes DEF ScriptState, HandlerOp
  <2>2. script' = [script EXCEPT ![s] = new] /\ UNCHANGED <<sub, setups>>
    BY <1>1 DEF RetryLoad, Begins
  <2> HIDE DEF new
  <2>3. /\ script' \in [Script -> ScriptState] /\ script'[s] = new
        /\ \A t \in Script \ {s} : script'[t] = script[t]
    BY <2>1, <2>2, SetScript
  <2>4. /\ page' \in PageState
        /\ page'.shown = page.shown /\ page'.submitting = page.submitting
    BY <1>1 DEF RetryLoad, PageState, SubscriptionTypeOK
  <2>5. /\ seen' \in History
        /\ seen'.crossed = (seen.crossed \/ Crossing(s)) /\ seen'.remote = seen.remote
        /\ seen'.doubt = seen.doubt /\ seen'.freed = seen.freed
        /\ seen'.applied = seen.applied /\ seen'.pressed = seen.pressed
    BY <1>1 DEF RetryLoad, History, SubscriptionTypeOK, Crossing
  <2>6. SubscriptionTypeOK'
    BY <2>2, <2>3, <2>4, <2>5 DEF SubscriptionTypeOK
  <2>7. LoadInv' /\ TruthInv'
    <3>1. Straight' => /\ Straight
                       /\ \A t \in Script \ {s} : script[t].op \notin {"load", "status"}
      BY <2>5 DEF Straight, Crossing
    <3>2. LoadInv'
      BY <2>1, <2>2, <2>3, <3>1 DEF LoadInv
    <3>3. TruthInv'
      BY <2>1, <2>3 DEF TruthInv
    <3> QED
      BY <3>2, <3>3
  <2>8. FlagInv' /\ PressInv'
    BY <2>1, <2>2, <2>3, <2>4, <2>5 DEF FlagInv, PressInv
  <2> QED
    BY <2>6, <2>7, <2>8
<1>2. CASE SetStatus(s)
  <2>1. PICK choice \in Choices :
          script' = [script EXCEPT ![s] =
            [Idle EXCEPT !.op = "status", !.choice = choice,
                         !.press = seen.pressed + 1, !.closing = TRUE]]
    BY <1>2 DEF SetStatus, Begins
  <2> DEFINE new == [Idle EXCEPT !.op = "status", !.choice = choice,
                                 !.press = seen.pressed + 1, !.closing = TRUE]
  <2>2. new \in ScriptState /\ new.op = "status" /\ new.stage = "sent" /\ new.closing
        /\ new.press = seen.pressed + 1 /\ new.choice \in Status
    <3>1. choice \in Status
      BY DEF Choices, Status
    <3>2. seen.pressed + 1 \in 0 .. Presses
      BY <1>2, SubscriptionAssumption DEF SetStatus
    <3> QED
      BY <3>1, <3>2, IdleTypes DEF ScriptState, HandlerOp
  <2> HIDE DEF new
  <2>3. /\ script' \in [Script -> ScriptState] /\ script'[s] = new
        /\ \A t \in Script \ {s} : script'[t] = script[t]
    BY <2>1, <2>2, SetScript DEF new
  <2>4. /\ page' \in PageState
        /\ page'.shown = page.shown /\ page'.submitting
        /\ ~page.submitting /\ UNCHANGED <<sub, setups>>
    BY <1>2 DEF SetStatus, MayPress, PageState, SubscriptionTypeOK
  <2>5. /\ seen' \in History
        /\ seen'.crossed = (seen.crossed \/ Running("load") # {})
        /\ seen'.remote = seen.remote
        /\ seen'.doubt = seen.doubt /\ seen'.freed = seen.freed
        /\ seen'.applied = seen.applied /\ seen'.pressed = seen.pressed + 1
    <3>1. seen.pressed + 1 \in 0 .. Presses
      BY <1>2, SubscriptionAssumption DEF SetStatus
    <3>2. seen' = [seen EXCEPT !.pressed = seen.pressed + 1,
                               !.crossed = seen.crossed \/ Running("load") # {}]
      BY <1>2 DEF SetStatus, SubscriptionTypeOK, History
    <3> QED
      BY <3>1, <3>2 DEF History, SubscriptionTypeOK
  <2>6. SubscriptionTypeOK'
    BY <2>3, <2>4, <2>5 DEF SubscriptionTypeOK
  <2>7. LoadInv' /\ TruthInv'
    <3>1. Straight' => Straight /\ \A t \in Script : script[t].op # "load"
      BY <2>5 DEF Straight, Running
    <3>2. LoadInv'
      BY <2>2, <2>3, <3>1 DEF LoadInv
    <3>3. TruthInv'
      BY <1>f, <2>2, <2>3, <2>4, <2>5, <3>1 DEF TruthInv
    <3> QED
      BY <3>2, <3>3
  <2>8. FlagInv'
    BY <2>2, <2>3, <2>4, <2>5 DEF FlagInv
  <2>9. PressInv'
    <3>1. seen'.applied <= seen'.pressed
      BY <2>5, SubscriptionAssumption DEF PressInv
    <3>2. ~seen.freed => \A t \in Script : script[t].op # "status"
      BY <2>4 DEF FlagInv
    <3> QED
      BY <2>2, <2>3, <2>5, <3>1, <3>2 DEF PressInv
  <2> QED
    BY <2>6, <2>7, <2>8, <2>9
<1>3. CASE StartUpdateCard(s) \/ ConfirmCard(s)
  <2> DEFINE what == IF StartUpdateCard(s) THEN [Idle EXCEPT !.op = "start", !.closing = TRUE]
                     ELSE [Idle EXCEPT !.op = "stripe", !.setup = page.secret]
  <2>1. /\ what \in ScriptState /\ what.op \in {"start", "stripe"}
        /\ what.op = "stripe" => ~what.closing
        /\ what.op = "start" => what.closing
    BY IdleTypes DEF ScriptState, HandlerOp
  <2>2. /\ script' = [script EXCEPT ![s] = what] /\ UNCHANGED <<sub, setups, seen>>
    BY <1>3 DEF StartUpdateCard, ConfirmCard, Begins
  <2>4. /\ page' \in PageState
        /\ page'.shown = page.shown
        /\ page.submitting \/ what.op = "start" => page'.submitting
    BY <1>3, IdleTypes DEF StartUpdateCard, ConfirmCard, PageState, SubscriptionTypeOK, ScriptState
  <2> HIDE DEF what
  <2>3. /\ script' \in [Script -> ScriptState] /\ script'[s] = what
        /\ \A t \in Script \ {s} : script'[t] = script[t]
    BY <2>1, <2>2, SetScript
  <2>6. SubscriptionTypeOK'
    BY <2>2, <2>3, <2>4 DEF SubscriptionTypeOK
  <2>7. LoadInv'
    BY <1>f, <2>1, <2>2, <2>3 DEF LoadInv, Straight
  <2>8. TruthInv'
    BY <1>f, <2>1, <2>2, <2>3, <2>4 DEF TruthInv, Straight
  <2>9. FlagInv' /\ PressInv'
    BY <1>f, <2>1, <2>2, <2>3, <2>4 DEF FlagInv, PressInv
  <2> QED
    BY <2>6, <2>7, <2>8, <2>9
<1> QED
  BY <1>1, <1>2, <1>3 DEF Handles

(* A handler that was answered and changes no status loads the page again.  *)
LEMMA ReloadsKeeps ==
  ASSUME PageInv, NEW s \in Script, NEW secret \in 0 .. Cards,
         script[s].op \in {"status", "save"}, Reloads(s, secret)
  PROVE  PageInv'
<1> USE PageTypes, HandlerTypes DEF PageInv
<1> DEFINE new == [Idle EXCEPT !.op = "load", !.closing = TRUE]
<1>1. new \in ScriptState /\ new.op = "load" /\ new.stage = "sent" /\ new.closing
  BY IdleTypes DEF ScriptState, HandlerOp
<1>2. script' = [script EXCEPT ![s] = new] /\ UNCHANGED <<sub, setups>>
  BY DEF Reloads, Begins
<1> HIDE DEF new
<1>3. /\ script' \in [Script -> ScriptState] /\ script'[s] = new
      /\ \A t \in Script \ {s} : script'[t] = script[t]
  BY <1>1, <1>2, SetScript
<1>4. /\ page' \in PageState
      /\ page'.shown = page.shown /\ page'.submitting = page.submitting
  BY DEF Reloads, PageState, SubscriptionTypeOK
<1>5. /\ seen' \in History
      /\ seen'.crossed = (seen.crossed \/ Crossing(s)) /\ seen'.remote = seen.remote
      /\ seen'.doubt = seen.doubt /\ seen'.freed = seen.freed
      /\ seen'.applied = seen.applied /\ seen'.pressed = seen.pressed
  BY DEF Reloads, History, SubscriptionTypeOK, Crossing
<1>6. SubscriptionTypeOK'
  BY <1>2, <1>3, <1>4, <1>5 DEF SubscriptionTypeOK
<1>7. LoadInv' /\ TruthInv'
  <2>1. Straight' => /\ Straight
                     /\ \A t \in Script \ {s} : script[t].op \notin {"load", "status"}
    BY <1>5 DEF Straight, Crossing
  <2>2. LoadInv'
    BY <1>1, <1>2, <1>3, <2>1 DEF LoadInv
  <2>3. TruthInv'
    BY <1>1, <1>3 DEF TruthInv
  <2> QED
    BY <2>2, <2>3
<1>8. FlagInv' /\ PressInv'
  BY <1>1, <1>2, <1>3, <1>4, <1>5 DEF FlagInv, PressInv
<1> QED
  BY <1>6, <1>7, <1>8

(* A handler that ends: the flag it raised is lowered.                      *)
LEMMA EndsKeeps ==
  ASSUME PageInv, NEW s \in Script, NEW doubt \in BOOLEAN,
         Ends(s), Ended(s, doubt), UNCHANGED <<sub, setups>>, page' \in PageState,
         page'.submitting = (page.submitting /\ ~script[s].closing),
         Straight /\ ~doubt =>
           \/ page'.shown = sub.status
           \/ /\ page'.shown = page.shown /\ doubt = seen.doubt
              /\ script[s].op \notin {"load", "status"}
  PROVE  PageInv'
<1> USE PageTypes, HandlerTypes DEF PageInv
<1>1. /\ script' \in [Script -> ScriptState] /\ script'[s] = Idle
      /\ \A t \in Script \ {s} : script'[t] = script[t]
  BY SetScript, IdleTypes DEF Ends
<1>2. /\ seen' \in History
      /\ seen'.crossed = seen.crossed /\ seen'.remote = seen.remote
      /\ seen'.doubt = doubt
      /\ seen'.freed = (seen.freed \/ (script[s].closing
                          /\ \E t \in Script \ {s} : script[t].closing))
      /\ seen'.applied = seen.applied /\ seen'.pressed = seen.pressed
  BY DEF Ended, History, SubscriptionTypeOK
<1>3. SubscriptionTypeOK'
  BY <1>1, <1>2 DEF SubscriptionTypeOK
<1>4. LoadInv'
  BY <1>1, <1>2, IdleTypes DEF LoadInv, Straight
<1>5. TruthInv'
  BY <1>1, <1>2, IdleTypes DEF TruthInv, Straight
<1>6. FlagInv' /\ PressInv'
  BY <1>1, <1>2, IdleTypes DEF FlagInv, PressInv
<1> QED
  BY <1>3, <1>4, <1>5, <1>6

LEMMA GoesKeeps ==
  ASSUME PageInv, NEW s \in Script, Goes(s)
  PROVE  PageInv'
<1> USE PageTypes, HandlerTypes DEF PageInv
<1>1. CASE StatusChanged(s)
  BY <1>1, ReloadsKeeps DEF StatusChanged
<1>2. CASE CardUpdated(s)
  BY <1>2, ReloadsKeeps, SubscriptionAssumption DEF CardUpdated, NoSetup
<1>3. CASE CardUpdateStarted(s)
  <2>1. page' \in PageState /\ page'.shown = page.shown /\ page'.submitting = FALSE
    BY <1>3 DEF CardUpdateStarted, PageState, SubscriptionTypeOK
  <2>2. script[s].closing /\ script[s].op = "start"
    BY <1>3 DEF CardUpdateStarted, FlagInv
  <2>3. page'.submitting = (page.submitting /\ ~script[s].closing)
    BY <2>1, <2>2
  <2>4. /\ Ends(s) /\ Ended(s, seen.doubt) /\ UNCHANGED <<sub, setups>>
    BY <1>3 DEF CardUpdateStarted
  <2>5. script[s].op \notin {"load", "status"} /\ seen.doubt \in BOOLEAN
    BY <2>2
  <2> HIDE DEF PageInv
  <2> QED
    BY <2>1, <2>3, <2>4, <2>5, EndsKeeps
<1>4. CASE Loaded(s)
  <2>1. /\ page' \in PageState /\ page'.shown = script[s].choice
        /\ page'.submitting = (page.submitting /\ ~script[s].closing)
    BY <1>4 DEF Loaded, PageState, SubscriptionTypeOK
  <2>2. Straight => script[s].choice = sub.status
    BY <1>4 DEF Loaded, LoadInv
  <2> QED
    BY <1>4, <2>1, <2>2, EndsKeeps DEF Loaded
<1>5. CASE ScriptFailed(s)
  <2>1. /\ page' \in PageState
        /\ page'.submitting = (page.submitting /\ ~script[s].closing)
    BY <1>5 DEF ScriptFailed, Fails, PageState, SubscriptionTypeOK
  <2> QED
    BY <1>5, <2>1, EndsKeeps DEF ScriptFailed, Fails
<1>6. CASE CardRefused(s) \/ CardConfirmed(s)
  <2> DEFINE new == IF CardRefused(s) THEN Idle
                    ELSE [Idle EXCEPT !.op = "save", !.setup = script[s].setup,
                                      !.closing = TRUE]
  <2>1. /\ new \in ScriptState /\ new.op \in {"none", "save"}
        /\ new.op = "save" => new.closing
        /\ new.op = "none" => ~new.closing
    BY IdleTypes DEF ScriptState, HandlerOp
  <2>2. /\ script[s].op = "stripe"
        /\ script' = [script EXCEPT ![s] = new] /\ UNCHANGED <<sub, setups, seen>>
    BY <1>6 DEF CardRefused, CardConfirmed, Begins, Ends
  <2>3. /\ page' \in PageState /\ page'.shown = page.shown
        /\ page.submitting \/ new.op = "save" => page'.submitting
    BY <1>6, IdleTypes DEF CardRefused, CardConfirmed, PageState, SubscriptionTypeOK, ScriptState
  <2> HIDE DEF new
  <2>4. /\ script' \in [Script -> ScriptState] /\ script'[s] = new
        /\ \A t \in Script \ {s} : script'[t] = script[t]
    BY <2>1, <2>2, SetScript
  <2>5. SubscriptionTypeOK'
    BY <2>2, <2>3, <2>4 DEF SubscriptionTypeOK
  <2>6. LoadInv'
    BY <2>1, <2>2, <2>4 DEF LoadInv, Straight
  <2>7. TruthInv'
    BY <2>1, <2>2, <2>3, <2>4 DEF TruthInv, Straight
  <2>8. FlagInv' /\ PressInv'
    BY <2>1, <2>2, <2>3, <2>4 DEF FlagInv, PressInv
  <2> QED
    BY <2>5, <2>6, <2>7, <2>8
<1> QED
  BY <1>1, <1>2, <1>3, <1>4, <1>5, <1>6 DEF Goes

(* The server and Stripe.                                                   *)
LEMMA ServesKeeps ==
  ASSUME PageInv, NEW s \in Script, Serves(s)
  PROVE  PageInv'
<1> USE PageTypes, HandlerTypes DEF PageInv
<1>1. CASE UpdateStatus(s)
  <2>1. /\ script' \in [Script -> ScriptState]
        /\ script'[s].stage \in {"granted", "failed"} /\ script'[s].op = "status"
        /\ script'[s].press = script[s].press /\ script'[s].closing = script[s].closing
        /\ script'[s].choice = script[s].choice
        /\ \A t \in Script \ {s} : script'[t] = script[t]
    BY <1>1, Carried DEF UpdateStatus, Sent
  <2>2. script[s].op = "status" /\ UNCHANGED <<page, setups>>
    BY <1>1 DEF UpdateStatus, Sent
  <2>3. sub' \in [status : Status, card : 0 .. Cards]
    <3>1. script[s].choice \in Status
      BY <2>2 DEF PressInv
    <3> QED
      BY <1>1, <3>1 DEF UpdateStatus, SubscriptionTypeOK
  <2>4. /\ seen' \in History /\ seen'.applied = script[s].press
        /\ seen'.crossed = seen.crossed /\ seen'.remote = seen.remote
        /\ seen'.doubt = seen.doubt /\ seen'.freed = seen.freed
        /\ seen'.pressed = seen.pressed
    BY <1>1 DEF UpdateStatus, History, SubscriptionTypeOK
  <2>5. SubscriptionTypeOK'
    BY <2>1, <2>2, <2>3, <2>4 DEF SubscriptionTypeOK
  <2>6. LoadInv'
    BY <2>1, <2>2, <2>4 DEF LoadInv, Straight
  <2>7. TruthInv'
    BY <2>1 DEF TruthInv
  <2>8. FlagInv' /\ PressInv'
    BY <2>1, <2>2, <2>4 DEF FlagInv, PressInv
  <2> QED
    BY <2>5, <2>6, <2>7, <2>8
(* The other calls leave the status, and a handler its kind and its press.  *)
<1>2. ASSUME script' \in [Script -> ScriptState],
             script[s].op # "load" => script'[s].op = script[s].op
                                   /\ script'[s].stage # "sent",
             script[s].op = "load" =>
               /\ script'[s].op = "load"
               /\ script'[s].stage = "granted" => script'[s].choice = sub.status,
             script'[s].press = script[s].press, script'[s].closing = script[s].closing,
             script[s].op = "status" => script'[s].choice = script[s].choice,
             \A t \in Script \ {s} : script'[t] = script[t],
             UNCHANGED <<page, seen>>, sub'.status = sub.status,
             sub' \in [status : Status, card : 0 .. Cards],
             setups' \in [Setup -> {"none", "open", "succeeded"}]
      PROVE  PageInv'
  <2>1. SubscriptionTypeOK'
    BY <1>2 DEF SubscriptionTypeOK
  <2>2. LoadInv'
    BY <1>2 DEF LoadInv, Straight
  <2>3. TruthInv'
    BY <1>2 DEF TruthInv, Straight
  <2>4. FlagInv' /\ PressInv'
    BY <1>2 DEF FlagInv, PressInv
  <2> QED
    BY <2>1, <2>2, <2>3, <2>4
<1>3. CASE GetSubscription(s)
  <2> DEFINE what == [script[s] EXCEPT !.choice = sub.status]
  <2>1. /\ what \in ScriptState /\ what.op = "load" /\ what.choice = sub.status
        /\ what.press = script[s].press /\ what.closing = script[s].closing
    BY <1>3 DEF GetSubscription, Sent, ScriptState
  <2> HIDE DEF what
  <2>2. CarriedOut(s, what) /\ UNCHANGED <<page, sub, setups, seen>> /\ script[s].op = "load"
    BY <1>3 DEF GetSubscription, Sent, what
  <2> QED
    BY <1>2, <2>1, <2>2, Carried DEF SubscriptionTypeOK
<1>4. CASE SetupPaymentMethod(s)
  <2>1. PICK i \in Setup :
          /\ setups' = [setups EXCEPT ![i] = "open"]
          /\ CarriedOut(s, [script[s] EXCEPT !.setup = i])
    BY <1>4 DEF SetupPaymentMethod
  <2>2. /\ script[s].op = "start" /\ UNCHANGED <<page, sub, seen>>
    BY <1>4 DEF SetupPaymentMethod, Sent
  <2> DEFINE what == [script[s] EXCEPT !.setup = i]
  <2>3. /\ what \in ScriptState /\ what.op = "start"
        /\ what.press = script[s].press /\ what.closing = script[s].closing
    BY <2>2, SubscriptionAssumption DEF ScriptState, Setup
  <2>4. setups' \in [Setup -> {"none", "open", "succeeded"}]
    BY <2>1 DEF SubscriptionTypeOK
  <2>5. CarriedOut(s, what)
    BY <2>1
  <2> HIDE DEF what
  <2> QED
    BY <1>2, <2>2, <2>3, <2>4, <2>5, Carried DEF SubscriptionTypeOK
<1>5. CASE ConfirmSetup(s)
  <2>1. /\ script[s].op = "stripe" /\ CarriedOut(s, script[s])
        /\ UNCHANGED <<page, sub, seen>>
    BY <1>5 DEF ConfirmSetup, Sent
  <2>2. setups' \in [Setup -> {"none", "open", "succeeded"}]
    BY <1>5 DEF ConfirmSetup, SubscriptionTypeOK
  <2> QED
    BY <1>2, <2>1, <2>2, Carried DEF SubscriptionTypeOK
<1>6. CASE ConfirmPaymentMethod(s)
  <2>1. /\ script[s].op = "save" /\ CarriedOut(s, script[s])
        /\ UNCHANGED <<page, setups, seen>>
    BY <1>6 DEF ConfirmPaymentMethod, Sent
  <2>2. sub' \in [status : Status, card : 0 .. Cards] /\ sub'.status = sub.status
    BY <1>6 DEF ConfirmPaymentMethod, SubscriptionTypeOK
  <2> QED
    BY <1>2, <2>1, <2>2, Carried DEF SubscriptionTypeOK
<1>7. CASE AlreadyConfirmed(s) \/ NotServed(s)
  <2> DEFINE what == [script[s] EXCEPT !.stage = "failed"]
  <2>1. /\ what \in ScriptState /\ what.stage = "failed" /\ what.op = script[s].op
        /\ what.choice = script[s].choice
        /\ what.press = script[s].press /\ what.closing = script[s].closing
    BY DEF ScriptState
  <2>2. script' = [script EXCEPT ![s] = what] /\ UNCHANGED <<page, sub, setups, seen>>
    BY <1>7 DEF AlreadyConfirmed, NotServed
  <2> HIDE DEF what
  <2>3. /\ script' \in [Script -> ScriptState] /\ script'[s] = what
        /\ \A t \in Script \ {s} : script'[t] = script[t]
    BY <2>1, <2>2, SetScript
  <2> QED
    BY <1>2, <2>1, <2>2, <2>3 DEF SubscriptionTypeOK
<1> QED
  BY <1>1, <1>3, <1>4, <1>5, <1>6, <1>7 DEF Serves

LEMMA PageStep ==
  ASSUME PageInv, [SubscriptionNext]_subscriptionVars
  PROVE  PageInv'
<1> USE PageTypes DEF PageInv
<1>1. CASE \E s \in Script : Handles(s) \/ Goes(s) \/ Serves(s)
  BY <1>1, HandlesKeeps, GoesKeeps, ServesKeeps
<1>2. CASE OpenCancelFlow \/ CloseCancelFlow
  <2>1. /\ page' \in PageState /\ page'.shown = page.shown
        /\ page'.submitting = page.submitting /\ UNCHANGED <<script, sub, setups, seen>>
    BY <1>2 DEF OpenCancelFlow, CloseCancelFlow, PageState, SubscriptionTypeOK
  <2> QED
    BY <2>1 DEF SubscriptionTypeOK, LoadInv, TruthInv, FlagInv, PressInv, Straight
<1>3. CASE SellerCancels
  <2>1. /\ sub' \in [status : Status, card : 0 .. Cards]
        /\ seen' \in History /\ seen'.remote /\ seen'.freed = seen.freed
        /\ seen'.applied = seen.applied /\ seen'.pressed = seen.pressed
        /\ UNCHANGED <<page, script, setups>>
    BY <1>3 DEF SellerCancels, History, SubscriptionTypeOK, Status
  <2> QED
    BY <2>1 DEF SubscriptionTypeOK, LoadInv, TruthInv, FlagInv, PressInv, Straight
<1>4. CASE UNCHANGED subscriptionVars
  BY <1>4
     DEF subscriptionVars, SubscriptionTypeOK, LoadInv, TruthInv, FlagInv, PressInv, Straight
<1> QED
  BY <1>1, <1>2, <1>3, <1>4 DEF SubscriptionNext

LEMMA PageInit == SubscriptionInit => PageInv
<1> SUFFICES ASSUME SubscriptionInit PROVE PageInv
  OBVIOUS
<1> USE SubscriptionAssumption, IdleTypes DEF SubscriptionInit
<1> DEFINE first == CHOOSE s \in Script : TRUE
           load == [Idle EXCEPT !.op = "load"]
<1>1. first \in Script
  OBVIOUS
<1>2. load \in ScriptState /\ load.op = "load" /\ load.stage = "sent" /\ ~load.closing
  BY DEF ScriptState, HandlerOp
<1> HIDE DEF load
<1>3. script = [s \in Script |-> IF s = first THEN load ELSE Idle]
  BY DEF load
<1>4. SubscriptionTypeOK
  <2>1. page \in PageState
    BY DEF PageState, NoSetup
  <2>2. seen \in History
    BY DEF History
  <2>3. script \in [Script -> ScriptState]
    BY <1>2, <1>3
  <2> QED
    BY <2>1, <2>2, <2>3 DEF SubscriptionTypeOK, NoSetup
<1>5. LoadInv
  BY <1>2, <1>3 DEF LoadInv
<1>6. TruthInv
  BY <1>1, <1>2, <1>3 DEF TruthInv
<1>7. FlagInv /\ PressInv
  BY <1>2, <1>3 DEF FlagInv, PressInv
<1> QED
  BY <1>4, <1>5, <1>6, <1>7 DEF PageInv

LEMMA PageInvariant == SubscriptionSpec => []PageInv
BY PageInit, PageStep, PTL DEF SubscriptionSpec

(* PageTruth: for any number of handlers under way, presses and card        *)
(* updates, a page at rest without an error shows the status the server     *)
(* has, unless loads or changes crossed, the seller has stepped in, or a    *)
(* call has failed since the last load.                                     *)
THEOREM PageTruth == SubscriptionSpec => []ShowsTheTruth
<1>1. PageInv => ShowsTheTruth
  BY DEF PageInv, TruthInv, Straight, ShowsTheTruth
<1> QED
  BY <1>1, PageInvariant, PTL

(* PressesInOrder: the server carries out the choices in the order of the   *)
(* presses, unless a card being saved had enabled the buttons again.        *)
THEOREM PressesInOrder == SubscriptionSpec => ChoicesInOrder
<1>1. ASSUME PageInv, [SubscriptionNext]_subscriptionVars
      PROVE  [seen'.applied < seen.applied => seen.freed]_subscriptionVars
  <2> USE <1>1 DEF PageInv
  <2>1. CASE UNCHANGED seen.applied
    BY <2>1, PageTypes
  <2>2. ASSUME NEW s \in Script, UpdateStatus(s)
        PROVE  seen'.applied < seen.applied => seen.freed
    <3>1. seen'.applied = script[s].press /\ script[s].op = "status"
      BY <2>2 DEF UpdateStatus, Sent, SubscriptionTypeOK, History
    <3> QED
      BY <3>1, PageTypes DEF PressInv
  <2>3. seen \in History
    BY DEF SubscriptionTypeOK
  <2>4. ASSUME NEW s \in Script, Handles(s)
        PROVE  UNCHANGED seen.applied
    BY <2>3, <2>4
       DEF Handles, RetryLoad, SetStatus, StartUpdateCard, ConfirmCard, History
  <2>5. ASSUME NEW s \in Script, Goes(s)
        PROVE  UNCHANGED seen.applied
    <3>1. ASSUME NEW doubt, Ended(s, doubt)
          PROVE  UNCHANGED seen.applied
      BY <2>3, <3>1 DEF Ended, History
    <3>2. ASSUME NEW secret, Reloads(s, secret)
          PROVE  UNCHANGED seen.applied
      BY <2>3, <3>2 DEF Reloads, History
    <3> QED
      BY <2>5, <3>1, <3>2
         DEF Goes, StatusChanged, CardUpdated, CardUpdateStarted, CardConfirmed,
             CardRefused, Loaded, ScriptFailed, Fails
  <2>6. ASSUME NEW s \in Script, Serves(s), ~UpdateStatus(s)
        PROVE  seen' = seen
    BY <2>6 DEF Serves, GetSubscription, SetupPaymentMethod, ConfirmSetup, AlreadyConfirmed,
       ConfirmPaymentMethod, NotServed
  <2>7. ASSUME OpenCancelFlow \/ CloseCancelFlow \/ SellerCancels \/ UNCHANGED subscriptionVars
        PROVE  UNCHANGED seen.applied
    BY <2>3, <2>7
       DEF OpenCancelFlow, CloseCancelFlow, SellerCancels, subscriptionVars, History
  <2> QED
    BY <2>1, <2>2, <2>4, <2>5, <2>6, <2>7 DEF SubscriptionNext
<1> QED
  BY <1>1, PageInvariant, PTL DEF SubscriptionSpec, ChoicesInOrder

-----------------------------------------------------------------------------
(* The visit.                                                               *)

(* VisitIsTheirs: a visit is what its pages allow: each step of it is one   *)
(* of the session, of the form or of the subscription's page, or leaves     *)
(* what they own alone; so what is proved of each of them holds in a visit. *)
THEOREM VisitIsTheirs == Spec => SignInSpec /\ CheckoutSpec /\ SubscriptionSpec
<1>1. Init => SignInInit /\ CheckoutInit /\ SubscriptionInit
  BY DEF Init
<1>2. [Next]_vars => /\ [SignInNext]_browserVars
                     /\ [CheckoutNext]_checkoutVars
                     /\ [SubscriptionNext]_subscriptionVars
  BY DEF Next, vars, AtSession, AtForm, AtSubscription
<1> QED
  BY <1>1, <1>2, PTL DEF Spec, SignInSpec, CheckoutSpec, SubscriptionSpec

(* VisitTypes: every reachable state of a visit is well typed.              *)
THEOREM VisitTypes == Spec => []TypeOK
<1> DEFINE AtOK == at \in {"session", "form", "subscription"}
<1>1. Init => AtOK
  BY DEF Init
<1>2. AtOK /\ [Next]_vars => AtOK'
  BY DEF Next, vars, AtSession, AtForm, AtSubscription
<1>3. Spec => []AtOK
  BY <1>1, <1>2, PTL DEF Spec
<1>4. SignInFacts => SignInTypeOK
  BY DEF SignInFacts
<1>5. PageInv => SubscriptionTypeOK
  BY DEF PageInv
<1>6. AtOK /\ SignInTypeOK /\ CheckoutTypeOK /\ SubscriptionTypeOK => TypeOK
  BY DEF TypeOK
<1> HIDE DEF AtOK
<1> QED
  BY <1>3, <1>4, <1>5, <1>6, VisitIsTheirs, CheckoutTypes, SignInFactsInvariant,
     PageInvariant, PTL
-----------------------------------------------------------------------------
(* Buttons that are disabled.                                               *)

(* The form has one call at a time, from the press to its end.              *)
FormWaits == form.submitting <=> call.op # "none"

LEMMA FormWaitsStep ==
  ASSUME CheckoutTypeOK, FormWaits, [CheckoutNext]_checkoutVars
  PROVE  FormWaits'
<1> USE DEF FormWaits
<1>t. form \in Form /\ call \in Call
  BY DEF CheckoutTypeOK
<1>n. NoCall.op = "none" /\ ~NewForm.submitting
  BY DEF NoCall, NewForm
<1>1. CASE ChangeQuantity
  BY <1>t, <1>1 DEF ChangeQuantity, Form
<1>2. CASE StartCheckout
  BY <1>t, <1>2 DEF StartCheckout, Form, NoCall
<1>3. CASE Confirm
  BY <1>t, <1>3 DEF Confirm, Form, NoCall
<1>4. CASE Reload
  BY <1>n, <1>4 DEF Reload
<1>5. CASE Answers
  <2>1. ASSUME NEW op, NEW stage, Served(op, stage)
        PROVE  call'.op = call.op
    BY <1>t, <2>1 DEF Served, Call
  <2>2. call'.op = call.op
    BY <1>t, <1>5, <2>1
       DEF Answers, MakesIntent, StripeConfirms, StripeRefuses, Places, NotPlaceable, BoxFull,
           Refuses, Call
  <2>3. form' = form
    BY <1>5 DEF Answers, MakesIntent, StripeConfirms, StripeRefuses, Places, NotPlaceable,
                BoxFull, Refuses
  <2> QED
    BY <2>2, <2>3
<1>6. CASE CheckoutStarted \/ Placed \/ CallFailed
  <2>1. ~form'.submitting
    BY <1>t, <1>6 DEF CheckoutStarted, Authorizing, Placed, CallFailed, Failed, Form
  <2>2. call' = NoCall
    BY <1>6 DEF CheckoutStarted, Placed, CallFailed
  <2> QED
    BY <1>n, <2>1, <2>2
<1>7. CASE Confirmed
  BY <1>t, <1>7 DEF Confirmed, Call, NoCall
<1>8. CASE UNCHANGED checkoutVars
  BY <1>8 DEF checkoutVars
<1> QED
  BY <1>1, <1>2, <1>3, <1>4, <1>5, <1>6, <1>7, <1>8 DEF CheckoutNext, Continues

(* The handler that raised the flag of the subscription page, or a later    *)
(* one, will lower it: the flag is not up when they have all gone.          *)
RaisedInv ==
  /\ \A s \in Script : script[s].op \in {"none", "stripe"} => ~script[s].closing
  /\ page.submitting => \E s \in Script : script[s].closing

LEMMA RaisedBegins ==
  ASSUME SubscriptionTypeOK, RaisedInv, NEW s \in Script, NEW new \in ScriptState,
         script' = [script EXCEPT ![s] = new],
         new.op \in {"none", "stripe"} => ~new.closing,
         page'.submitting => new.closing \/ (page.submitting /\ ~script[s].closing)
  PROVE  RaisedInv'
<1>1. /\ script'[s] = new
      /\ \A t \in Script \ {s} : script'[t] = script[t]
  BY SetScript
<1> QED
  BY <1>1 DEF RaisedInv

LEMMA RaisedUp ==
  ASSUME SubscriptionTypeOK, RaisedInv, NEW s \in Script, NEW new \in ScriptState,
         script' = [script EXCEPT ![s] = new],
         new.closing, new.op \notin {"none", "stripe"}
  PROVE  RaisedInv'
<1>1. /\ script'[s] = new
      /\ \A t \in Script \ {s} : script'[t] = script[t]
  BY SetScript
<1> QED
  BY <1>1 DEF RaisedInv

LEMMA RaisedHandles ==
  ASSUME SubscriptionTypeOK, RaisedInv, NEW s \in Script, Handles(s)
  PROVE  RaisedInv'
<1> USE PageTypes, HandlerTypes
<1>f. script[s].op = "none" /\ ~script[s].closing
  BY DEF Handles, RetryLoad, SetStatus, StartUpdateCard, ConfirmCard, Free, RaisedInv
<1>i. /\ Idle.closing = FALSE
      /\ DOMAIN Idle = {"op", "stage", "choice", "press", "setup", "closing"}
  BY DEF Idle
<1>1. CASE RetryLoad(s)
  <2> DEFINE new == [Idle EXCEPT !.op = "load"]
  <2>1. new \in ScriptState /\ new.op = "load"
    BY IdleTypes DEF ScriptState, HandlerOp
  <2>2. script' = [script EXCEPT ![s] = new] /\ page'.submitting = page.submitting
    BY <1>1 DEF RetryLoad, Begins, SubscriptionTypeOK, PageState
  <2> HIDE DEF new
  <2> QED
    BY <1>f, <2>1, <2>2, RaisedBegins
<1>2. CASE SetStatus(s)
  <2>1. PICK choice \in Choices :
          script' = [script EXCEPT ![s] = [Idle EXCEPT !.op = "status", !.choice = choice,
                       !.press = seen.pressed + 1, !.closing = TRUE]]
    BY <1>2 DEF SetStatus, Begins
  <2> DEFINE new == [Idle EXCEPT !.op = "status", !.choice = choice,
                       !.press = seen.pressed + 1, !.closing = TRUE]
  <2>2. choice \in Status
    BY DEF Choices, Status
  <2>3. seen.pressed + 1 \in 0 .. Presses
    BY <1>2, SubscriptionAssumption DEF SetStatus
  <2>4. new \in ScriptState /\ new.op = "status" /\ new.closing
    BY <2>2, <2>3, IdleTypes DEF ScriptState, HandlerOp
  <2>5. script' = [script EXCEPT ![s] = new]
    BY <2>1
  <2> HIDE DEF new
  <2> QED
    BY <2>4, <2>5, RaisedUp
<1>3. CASE StartUpdateCard(s)
  <2> DEFINE new == [Idle EXCEPT !.op = "start", !.closing = TRUE]
  <2>1. new \in ScriptState /\ new.op = "start" /\ new.closing
    BY IdleTypes DEF ScriptState, HandlerOp
  <2>2. script' = [script EXCEPT ![s] = new]
    BY <1>3 DEF StartUpdateCard, Begins
  <2> HIDE DEF new
  <2> QED
    BY <2>1, <2>2, RaisedUp
<1>4. CASE ConfirmCard(s)
  <2> DEFINE new == [Idle EXCEPT !.op = "stripe", !.setup = page.secret]
  <2>1. new \in ScriptState /\ ~new.closing
    BY IdleTypes DEF ScriptState, HandlerOp
  <2>2. script' = [script EXCEPT ![s] = new] /\ page' = page
    BY <1>4 DEF ConfirmCard, Begins
  <2> HIDE DEF new
  <2> QED
    BY <1>f, <2>1, <2>2, RaisedBegins
<1> QED
  BY <1>1, <1>2, <1>3, <1>4 DEF Handles

LEMMA RaisedGoes ==
  ASSUME PageInv, RaisedInv, NEW s \in Script, Goes(s)
  PROVE  RaisedInv'
<1> USE PageTypes, HandlerTypes, IdleTypes DEF PageInv
<1>p. page \in PageState
  BY DEF SubscriptionTypeOK
<1>1. ASSUME NEW secret, Reloads(s, secret), script[s].op \in {"status", "save"}
      PROVE  RaisedInv'
  <2> DEFINE new == [Idle EXCEPT !.op = "load", !.closing = TRUE]
  <2>1. new \in ScriptState /\ new.op = "load" /\ new.closing
    BY DEF ScriptState, HandlerOp
  <2>2. script' = [script EXCEPT ![s] = new]
    BY <1>1 DEF Reloads, Begins
  <2> HIDE DEF new
  <2> QED
    BY <2>1, <2>2, RaisedUp
<1>2. CASE StatusChanged(s) \/ CardUpdated(s)
  BY <1>1, <1>2 DEF StatusChanged, CardUpdated
<1>3. CASE CardUpdateStarted(s) \/ Loaded(s) \/ ScriptFailed(s)
  <2>1. script' = [script EXCEPT ![s] = Idle]
    BY <1>3 DEF CardUpdateStarted, Loaded, ScriptFailed, Ends
  <2>2. page'.submitting => page.submitting /\ ~script[s].closing
    BY <1>p, <1>3 DEF CardUpdateStarted, Loaded, ScriptFailed, Fails, PageState
  <2> QED
    BY <2>1, <2>2, RaisedBegins
<1>4. CASE CardRefused(s)
  <2>1. script' = [script EXCEPT ![s] = Idle] /\ page' = page
    BY <1>4 DEF CardRefused, Ends
  <2>2. ~script[s].closing
    BY <1>4 DEF CardRefused, RaisedInv
  <2> QED
    BY <2>1, <2>2, RaisedBegins
<1>5. CASE CardConfirmed(s)
  <2> DEFINE new == [Idle EXCEPT !.op = "save", !.setup = script[s].setup, !.closing = TRUE]
  <2>1. new \in ScriptState /\ new.op = "save" /\ new.closing
    BY DEF ScriptState, HandlerOp
  <2>2. script' = [script EXCEPT ![s] = new]
    BY <1>5 DEF CardConfirmed, Begins
  <2> HIDE DEF new
  <2> QED
    BY <2>1, <2>2, RaisedUp
<1> QED
  BY <1>2, <1>3, <1>4, <1>5 DEF Goes

LEMMA RaisedServes ==
  ASSUME SubscriptionTypeOK, RaisedInv, NEW s \in Script, Serves(s)
  PROVE  RaisedInv'
<1>s. script \in [Script -> ScriptState]
  BY DEF SubscriptionTypeOK
<1>1. ASSUME NEW what \in ScriptState, CarriedOut(s, what),
             what.op = script[s].op, what.closing = script[s].closing
      PROVE  \A t \in Script : /\ script'[t].op = script[t].op
                               /\ script'[t].closing = script[t].closing
  BY <1>1, Carried
<1>2. page' = page
  BY DEF Serves, UpdateStatus, GetSubscription, SetupPaymentMethod, ConfirmSetup,
         AlreadyConfirmed, ConfirmPaymentMethod, NotServed
<1>3. \A t \in Script : /\ script'[t].op = script[t].op
                        /\ script'[t].closing = script[t].closing
  <2>1. CASE UpdateStatus(s) \/ ConfirmSetup(s) \/ ConfirmPaymentMethod(s)
    BY <1>s, <1>1, <2>1 DEF UpdateStatus, ConfirmSetup, ConfirmPaymentMethod
  <2>2. CASE GetSubscription(s)
    <3> DEFINE what == [script[s] EXCEPT !.choice = sub.status]
    <3>1. /\ what \in ScriptState
          /\ what.op = script[s].op /\ what.closing = script[s].closing
      BY <1>s, PageTypes DEF ScriptState
    <3> QED
      BY <1>1, <2>2, <3>1 DEF GetSubscription
  <2>3. CASE SetupPaymentMethod(s)
    <3>1. PICK i \in Setup : CarriedOut(s, [script[s] EXCEPT !.setup = i])
      BY <2>3 DEF SetupPaymentMethod
    <3> DEFINE what == [script[s] EXCEPT !.setup = i]
    <3>2. /\ what \in ScriptState
          /\ what.op = script[s].op /\ what.closing = script[s].closing
      BY <1>s, SubscriptionAssumption DEF ScriptState, Setup
    <3> QED
      BY <1>1, <3>1, <3>2
  <2>4. CASE AlreadyConfirmed(s) \/ NotServed(s)
    <3>1. script' = [script EXCEPT ![s].stage = "failed"]
      BY <2>4 DEF AlreadyConfirmed, NotServed
    <3> QED
      BY <1>s, <3>1 DEF ScriptState
  <2> QED
    BY <2>1, <2>2, <2>3, <2>4 DEF Serves
<1> QED
  BY <1>2, <1>3 DEF RaisedInv

LEMMA RaisedStep ==
  ASSUME PageInv, RaisedInv, [SubscriptionNext]_subscriptionVars
  PROVE  RaisedInv'
<1>1. CASE \E s \in Script : Handles(s) \/ Goes(s) \/ Serves(s)
  BY <1>1, RaisedHandles, RaisedGoes, RaisedServes DEF PageInv
<1>2. CASE OpenCancelFlow \/ CloseCancelFlow \/ SellerCancels \/ UNCHANGED subscriptionVars
  <2>1. page'.submitting = page.submitting /\ script' = script
    BY <1>2 DEF OpenCancelFlow, CloseCancelFlow, SellerCancels, subscriptionVars, PageInv,
                SubscriptionTypeOK, PageState
  <2> QED
    BY <2>1 DEF RaisedInv
<1> QED
  BY <1>1, <1>2 DEF SubscriptionNext

(* A sign-in form that is disabled waits for a call of its own.             *)
FormCalls(t) ==
  signInForm[t].submitting =>
    \E w \in Way : signing[t][w].own /\ signing[t][w].stage # "none"

SignInWaits == \A t \in Tab : FormCalls(t)

LEMMA OneTabWaits ==
  ASSUME SignInTypeOK, SignInWaits, NEW t \in Tab,
         \A u \in Tab \ {t} : /\ signInForm'[u] = signInForm[u]
                              /\ signing'[u] = signing[u],
         FormCalls(t)'
  PROVE  SignInWaits'
BY DEF SignInWaits, FormCalls

LEMMA NewFormWaits ==
  ASSUME SignInTypeOK, SignInWaits, NEW t \in Tab, NEW k \in Kind,
         signInForm' = [signInForm EXCEPT ![t] = NewSignIn(k)],
         \A u \in Tab \ {t} : signing'[u] = signing[u]
  PROVE  SignInWaits'
<1>1. /\ ~signInForm'[t].submitting
      /\ \A u \in Tab \ {t} : signInForm'[u] = signInForm[u]
  BY DEF SignInTypeOK, NewSignIn
<1> QED
  BY <1>1, OneTabWaits DEF FormCalls

LEMMA TabWaits ==
  ASSUME SignInTypeOK, SignInWaits, NEW t \in Tab,
         \/ \E p \in Page : OpenPage(t, p)
         \/ ReloadPage(t) \/ LogOutHere(t) \/ OpenLink(t) \/ TryAgain(t)
  PROVE  SignInWaits'
<1>1. ASSUME Remount(t)
      PROVE  SignInWaits'
  BY <1>1, NewFormWaits DEF Remount, Kind, SignInTypeOK
<1>2. ASSUME NEW k \in Kind, Load(t, k)
      PROVE  SignInWaits'
  BY <1>2, NewFormWaits DEF Load, SignInTypeOK
<1>3. CASE TryAgain(t)
  BY <1>3 DEF TryAgain, SignInTypeOK, SignInForm, SignInWaits, FormCalls
<1>4. CASE OpenLink(t)
  BY <1>4, NewFormWaits DEF OpenLink, SignInTypeOK, Kind
<1>5. CASE ReloadPage(t)
  BY <1>2, <1>5 DEF ReloadPage, Kind
<1> QED
  BY <1>1, <1>3, <1>4, <1>5 DEF OpenPage, LogOutHere

LEMMA CallWaits ==
  ASSUME SignInTypeOK, SignInWaits, NEW t \in Tab, NEW w \in Way,
         Submit(t, w) \/ CallStep(t, w) \/ MailStep(t)
  PROVE  SignInWaits'
<1>s. /\ signing \in [Tab -> [Way -> SignInCall]]
      /\ signInForm \in [Tab -> SignInForm]
  BY DEF SignInTypeOK
<1>e. "email" \in Way /\ "link" \in Way
  BY DEF Way
(* A call goes on: it stays the form's.                                     *)
<1>1. ASSUME NEW v \in Way, signInForm' = signInForm,
             \A u \in Tab, x \in Way : u # t \/ x # v => signing'[u][x] = signing[u][x],
             signing'[t][v].own = signing[t][v].own, signing'[t][v].stage # "none"
      PROVE  SignInWaits'
  BY <1>1 DEF SignInWaits, FormCalls
(* A call ends: the form is told if the call is its own.                    *)
<1>2. ASSUME NEW v \in Way, Over(t, v),
             \/ /\ signing[t][v].own /\ ~signInForm'[t].submitting
                /\ \A u \in Tab \ {t} : signInForm'[u] = signInForm[u]
             \/ ~signing[t][v].own /\ signInForm' = signInForm
      PROVE  SignInWaits'
  <2>1. \A u \in Tab, x \in Way : u # t \/ x # v => signing'[u][x] = signing[u][x]
    BY <1>s, <1>2 DEF Over
  <2> QED
    BY <1>2, <2>1 DEF SignInWaits, FormCalls
<1>3. CASE Submit(t, w)
  <2>1. /\ signing'[t][w].own /\ signing'[t][w].stage # "none"
        /\ \A u \in Tab \ {t} : /\ signInForm'[u] = signInForm[u]
                                /\ signing'[u] = signing[u]
    BY <1>s, <1>3 DEF Submit
  <2> QED
    BY <2>1, OneTabWaits DEF FormCalls
<1>r. ASSUME NEW v \in Way, NEW stage \in {"granted", "refused"},
             signInForm' = signInForm,
             signing' = [signing EXCEPT ![t][v].stage = stage]
      PROVE  SignInWaits'
  <2>1. /\ signing'[t][v].own = signing[t][v].own
        /\ signing'[t][v].stage = stage
        /\ \A u \in Tab, x \in Way : u # t \/ x # v => signing'[u][x] = signing[u][x]
    BY <1>s, <1>r DEF SignInCall
  <2> QED
    BY <1>1, <1>r, <2>1
<1>4. CASE Grants(t, w)
  <2>1. signing' = [signing EXCEPT ![t][w].stage = "granted", ![t][w].pair = issued + 1]
    BY <1>4 DEF Grants
  <2>2. /\ signing'[t][w].own = signing[t][w].own
        /\ signing'[t][w].stage = "granted"
        /\ \A u \in Tab, x \in Way : u # t \/ x # w => signing'[u][x] = signing[u][x]
    BY <1>s, <2>1 DEF SignInCall
  <2>3. signInForm' = signInForm
    BY <1>4 DEF Grants
  <2> QED
    BY <1>1, <2>2, <2>3
<1>5. CASE Denies(t, w)
  BY <1>r, <1>5 DEF Denies
<1>6. CASE Mails(t)
  BY <1>e, <1>r, <1>6 DEF Mails
<1>7. CASE SignedInBy(t, w)
  BY <1>s, <1>7, NewFormWaits DEF SignedInBy, Kind
<1>8. CASE SignInFailed(t, w) \/ LinkSent(t) \/ LinkLeft(t)
  <2>1. CASE SignInFailed(t, w)
    <3>1. signing[t][w].own =>
            /\ ~signInForm'[t].submitting
            /\ \A u \in Tab \ {t} : signInForm'[u] = signInForm[u]
      BY <1>s, <2>1 DEF SignInFailed, Settle, SignInForm
    <3>2. Over(t, w) /\ (~signing[t][w].own => signInForm' = signInForm)
      BY <2>1 DEF SignInFailed, Settle
    <3> QED
      BY <1>2, <3>1, <3>2
  <2>2. CASE LinkSent(t)
    <3>1. signing[t]["email"].own =>
            /\ ~signInForm'[t].submitting
            /\ \A u \in Tab \ {t} : signInForm'[u] = signInForm[u]
      BY <1>s, <2>2 DEF LinkSent, Settle, SignInForm
    <3>2. Over(t, "email") /\ (~signing[t]["email"].own => signInForm' = signInForm)
      BY <2>2 DEF LinkSent, Settle
    <3> QED
      BY <1>e, <1>2, <3>1, <3>2
  <2>3. CASE LinkLeft(t)
    <3>1. /\ Over(t, "link")
          /\ ~signing[t]["link"].own /\ signInForm' = signInForm
      BY <2>3 DEF LinkLeft
    <3> QED
      BY <1>e, <1>2, <3>1
  <2> QED
    BY <1>8, <2>1, <2>2, <2>3
<1> QED
  BY <1>3, <1>4, <1>5, <1>6, <1>7, <1>8 DEF CallStep, MailStep

LEMMA SignInWaitsStep ==
  ASSUME SignInTypeOK, SignInWaits, [SignInNext]_browserVars
  PROVE  SignInWaits'
<1>1. ASSUME NEW r \in Request, FetchStep(r)
      PROVE  SignInWaits'
  <2>1. request[r].tab \in Tab
    BY RequestTypes DEF SignInTypeOK
  <2>2. CASE GaveUp(r)
    <3>1. PICK k \in Kind : Load(request[r].tab, k)
      BY <1>1, <2>2 DEF FetchStep, Kind
    <3> QED
      BY <2>1, <3>1, NewFormWaits DEF Load, SignInTypeOK
  <2>3. CASE ~GaveUp(r)
    BY <1>1, <2>3 DEF FetchStep, signInVars, SignInWaits, FormCalls
  <2> QED
    BY <2>2, <2>3
<1>2. ASSUME (\E r \in Request, t \in Tab : SendFrom(r, t)) \/ UNCHANGED browserVars
      PROVE  SignInWaits'
  BY <1>2 DEF SendFrom, browserVars, signInVars, SignInWaits, FormCalls
<1>3. "link" \in Way
  BY DEF Way
<1> QED
  BY <1>1, <1>2, <1>3, TabWaits, CallWaits DEF SignInNext

(* NoPageLeftDead: for any tabs, requests, handlers and intents, whatever   *)
(* is lost, refused, left or pressed while something else is under way: a   *)
(* button is disabled only as long as a call that enables it again is under *)
(* way, and the payment form as long as any call is.                        *)
THEOREM NoPageLeftDead == Spec => []DisabledIsWaiting
<1>1. CheckoutSpec => []FormWaits
  <2>1. CheckoutInit => FormWaits
    BY DEF CheckoutInit, FormWaits, NewForm, NoCall
  <2> QED
    BY <2>1, FormWaitsStep, CheckoutTypes, PTL DEF CheckoutSpec
<1>2. SubscriptionSpec => []RaisedInv
  <2>1. SubscriptionInit => RaisedInv
    BY DEF SubscriptionInit, RaisedInv, Idle
  <2> QED
    BY <2>1, RaisedStep, PageInvariant, PTL DEF SubscriptionSpec
<1>3. SignInSpec => []SignInWaits
  <2>1. SignInInit => SignInWaits
    BY DEF SignInInit, SignInWaits, FormCalls, NewSignIn
  <2>2. SignInFacts => SignInTypeOK
    BY DEF SignInFacts
  <2> QED
    BY <2>1, <2>2, SignInWaitsStep, SignInFactsInvariant, PTL DEF SignInSpec
<1>4. FormWaits /\ PageInv /\ RaisedInv /\ SignInWaits => DisabledIsWaiting
  BY DEF FormWaits, PageInv, FlagInv, RaisedInv, SignInWaits, FormCalls, DisabledIsWaiting
<1> QED
  BY <1>1, <1>2, <1>3, <1>4, PageInvariant, VisitIsTheirs, PTL
=============================================================================
