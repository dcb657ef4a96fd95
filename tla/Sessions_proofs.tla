--------------------------- MODULE Sessions_proofs ---------------------------
(***************************************************************************)
(* Proofs about Sessions, for any number of browsers, tabs, users, calls   *)
(* and overlaps.                                                           *)
(***************************************************************************)
EXTENDS Sessions, TLAPS

USE SessionsAssumption DEF Browsers

-----------------------------------------------------------------------------
(***************************************************************************)
(* Sequences.                                                              *)
(***************************************************************************)

\* Replacing every element by one of the same type.
LEMMA MapSeq ==
    ASSUME NEW S, NEW s \in Seq(S), NEW f,
           f = [i \in DOMAIN s |-> f[i]], \A i \in DOMAIN s : f[i] \in S
    PROVE  f \in Seq(S) /\ DOMAIN f = DOMAIN s /\ Len(f) = Len(s)
<1>1. Len(s) \in Nat /\ DOMAIN s = 1 .. Len(s)
    OBVIOUS
<1>2. f \in [1 .. Len(s) -> S]
    BY <1>1
<1>3. f \in Seq(S) /\ DOMAIN f = 1 .. Len(s)
    BY <1>1, <1>2
<1>4. Len(f) = Len(s)
    BY <1>1, <1>3
<1> QED BY <1>1, <1>3, <1>4

\* What Append adds and what it leaves.
LEMMA AppendSeq ==
    ASSUME NEW S, NEW s \in Seq(S), NEW x \in S
    PROVE  /\ Append(s, x) \in Seq(S)
           /\ Len(s) + 1 \notin DOMAIN s
           /\ DOMAIN Append(s, x) = DOMAIN s \cup {Len(s) + 1}
           /\ \A i \in DOMAIN s : Append(s, x)[i] = s[i]
           /\ Append(s, x)[Len(s) + 1] = x
OBVIOUS

-----------------------------------------------------------------------------
(***************************************************************************)
(* What each action does to the list of calls.                             *)
(***************************************************************************)

\* A call keeps who asked what; it may lose the page that waits for it.
Kept(c) == /\ call'[c].req = call[c].req /\ call'[c].by = call[c].by
           /\ call'[c].key = call[c].key /\ call'[c].who = call[c].who
           /\ call'[c].tab \in {call[c].tab, None}

CallsOK == call \in Seq(Call)

LEMMA AskType ==
    ASSUME NEW t \in Tabs, NEW key \in Nat, NEW who \in Users \cup {None},
           NEW req \in {"me", "refresh", "login", "logout"}
    PROVE  Ask(req, t, key, who) \in Call
BY DEF Ask, Call

\* The server's part touches one call, and only its progress.
LEMMA ServedCalls ==
    ASSUME CallsOK, NEW c \in DOMAIN call, NEW pc \in {"asked", "read", "answered", "over"},
           NEW got \in Nat, Served(c, pc, got)
    PROVE  /\ CallsOK' /\ DOMAIN call' = DOMAIN call
           /\ \A d \in DOMAIN call : Kept(d) /\ call'[d].tab = call[d].tab
           /\ \A d \in DOMAIN call : d # c => call'[d] = call[d]
           /\ call'[c].pc = pc /\ call'[c].got = got
<1> DEFINE r == [req |-> call[c].req, by |-> call[c].by, tab |-> call[c].tab,
                 key |-> call[c].key, who |-> call[c].who, pc |-> pc, got |-> got]
<1>1. call[c] \in Call
    BY DEF CallsOK
<1>2. r \in Call
    BY <1>1 DEF Call
<1>3. call' = [call EXCEPT ![c] = r]
    BY DEF Served
<1>4. /\ r.req = call[c].req /\ r.by = call[c].by /\ r.tab = call[c].tab
      /\ r.key = call[c].key /\ r.who = call[c].who /\ r.pc = pc /\ r.got = got
    OBVIOUS
<1> HIDE DEF r
<1>5. DOMAIN call' = DOMAIN call /\ call'[c] = r
      /\ \A d \in DOMAIN call : d # c => call'[d] = call[d]
    BY <1>3
<1>6. call' = [d \in DOMAIN call |-> call'[d]]
    BY <1>3, <1>5
<1>7. \A d \in DOMAIN call : call'[d] \in Call
  <2>1. \A d \in DOMAIN call : call[d] \in Call
    BY DEF CallsOK
  <2> QED BY <1>2, <1>5, <2>1
<1>8. CallsOK'
    BY <1>6, <1>7, MapSeq DEF CallsOK
<1> QED BY <1>4, <1>5, <1>8 DEF Kept

\* A call that the page no longer waits for.
LEMMA FinishedCalls ==
    ASSUME CallsOK, NEW c \in DOMAIN call, NEW pc \in {"asked", "read", "answered", "over"}
    PROVE  LET f == Finished(c, pc) IN
           /\ f \in Seq(Call) /\ DOMAIN f = DOMAIN call /\ Len(f) = Len(call)
           /\ \A d \in DOMAIN call : d # c => f[d] = call[d]
           /\ f[c].req = call[c].req /\ f[c].by = call[c].by /\ f[c].key = call[c].key
           /\ f[c].who = call[c].who /\ f[c].got = call[c].got
           /\ f[c].tab = None /\ f[c].pc = pc
<1> DEFINE r == [req |-> call[c].req, by |-> call[c].by, tab |-> None, key |-> call[c].key,
                 who |-> call[c].who, pc |-> pc, got |-> call[c].got]
           f == Finished(c, pc)
<1>1. \A d \in DOMAIN call : call[d] \in Call
    BY DEF CallsOK
<1>2. r \in Call
    BY <1>1 DEF Call
<1>3. f = [call EXCEPT ![c] = r]
    BY DEF Finished
<1>4. /\ r.req = call[c].req /\ r.by = call[c].by /\ r.tab = None
      /\ r.key = call[c].key /\ r.who = call[c].who /\ r.pc = pc /\ r.got = call[c].got
    OBVIOUS
<1> HIDE DEF r, f
<1>5. DOMAIN f = DOMAIN call /\ f[c] = r /\ \A d \in DOMAIN call : d # c => f[d] = call[d]
    BY <1>3
<1>6. f = [d \in DOMAIN call |-> f[d]]
    BY <1>3, <1>5
<1>7. \A d \in DOMAIN call : f[d] \in Call
    BY <1>1, <1>2, <1>5
<1>8. f \in Seq(Call) /\ Len(f) = Len(call)
    BY <1>6, <1>7, MapSeq DEF CallsOK
<1> QED BY <1>4, <1>5, <1>8 DEF f

\* A page that is opened anew waits for none of its earlier calls.
LEMMA AbandonedCalls ==
    ASSUME CallsOK, NEW t \in Tabs
    PROVE  LET f == Abandoned(t) IN
           /\ f \in Seq(Call) /\ DOMAIN f = DOMAIN call /\ Len(f) = Len(call)
           /\ \A d \in DOMAIN call :
                 /\ f[d].req = call[d].req /\ f[d].by = call[d].by /\ f[d].key = call[d].key
                 /\ f[d].who = call[d].who /\ f[d].got = call[d].got /\ f[d].pc = call[d].pc
                 /\ f[d].tab = IF call[d].tab = t THEN None ELSE call[d].tab
<1> DEFINE f == Abandoned(t)
<1>1. \A d \in DOMAIN call : call[d] \in Call
    BY DEF CallsOK
<1>2. DOMAIN f = DOMAIN call /\ f = [d \in DOMAIN call |-> f[d]]
    BY DEF Abandoned
<1>3. ASSUME NEW d \in DOMAIN call
      PROVE  /\ f[d] \in Call
             /\ f[d].req = call[d].req /\ f[d].by = call[d].by /\ f[d].key = call[d].key
             /\ f[d].who = call[d].who /\ f[d].got = call[d].got /\ f[d].pc = call[d].pc
             /\ f[d].tab = IF call[d].tab = t THEN None ELSE call[d].tab
    BY <1>1 DEF Abandoned, Call
<1> HIDE DEF f
<1>4. f \in Seq(Call) /\ Len(f) = Len(call)
    BY <1>2, <1>3, MapSeq DEF CallsOK
<1> QED BY <1>2, <1>3, <1>4 DEF f

-----------------------------------------------------------------------------
(***************************************************************************)
(* The inductive invariant.                                                *)
(*                                                                         *)
(* Whatever is kept of a session, in a cookie, a page or a call, is kept   *)
(* by the browser the session was issued to.  Without this a rotation      *)
(* could hand a session over to another browser, and PageAgrees would not  *)
(* be inductive.  What a call waits with between the two statements of a   *)
(* refresh is a session that exists.                                       *)
(***************************************************************************)
CookiesBelong == \A b \in Browsers : cookie[b] # 0 => granted[cookie[b]].agent = b

PageBelongs(p, b, g) ==
    /\ p.token # 0 => g[p.token].agent = b
    /\ p.shows = "in" => p.token # 0 /\ g[p.token].user = p.user
PagesBelong == \A t \in Tabs : PageBelongs(tab[t], BrowserOf[t], granted)

CallBelongs(r, g) ==
    /\ r.key \in {0} \cup DOMAIN g /\ r.got \in {0} \cup DOMAIN g
    /\ r.key # 0 => g[r.key].agent = r.by
    /\ r.got # 0 => g[r.got].agent = r.by
    /\ r.tab # None => BrowserOf[r.tab] = r.by
    /\ r.req = "refresh" /\ r.pc = "read" => r.key # 0
CallsBelong == \A c \in DOMAIN call : CallBelongs(call[c], granted)

Belongs == CookiesBelong /\ PagesBelong /\ CallsBelong
IInv == TypeOK /\ Belongs /\ LineageOK

\* Types, without what CallsBelong says of the calls as well.
RowsOK ==
    /\ granted \in Seq(Session)
    /\ revoked \subseteq Sessions /\ expired \subseteq Sessions /\ lapsed \subseteq Sessions
BrowsersOK ==
    /\ cookie \in [Browsers -> {0} \cup Sessions]
    /\ tab \in [Tabs -> Page] /\ \A t \in Tabs : tab[t].token \in {0} \cup Sessions
    /\ calm \in BOOLEAN

LEMMA IInvParts == IInv <=> /\ RowsOK /\ BrowsersOK /\ CallsOK
                            /\ CookiesBelong /\ PagesBelong /\ CallsBelong /\ LineageOK
<1>1. CallsBelong => \A c \in DOMAIN call : call[c].key \in {0} \cup Sessions
                                             /\ call[c].got \in {0} \cup Sessions
    BY DEF CallsBelong, CallBelongs, Sessions
<1> QED BY <1>1 DEF IInv, TypeOK, Belongs, RowsOK, BrowsersOK, CallsOK

LEMMA IInvPartsNext == IInv' <=> /\ RowsOK' /\ BrowsersOK' /\ CallsOK'
                                 /\ CookiesBelong' /\ PagesBelong' /\ CallsBelong' /\ LineageOK'
BY IInvParts, PTL

\* Session rows are added, never changed and never taken away.
Grows == RowsOK' /\ Sessions \subseteq Sessions' /\ revoked \subseteq revoked'
         /\ \A k \in Sessions : granted'[k] = granted[k]

LEMMA SessionsType == ASSUME RowsOK
    PROVE  /\ Len(granted) \in Nat /\ Sessions = 1 .. Len(granted) /\ 0 \notin Sessions
           /\ \A k \in Sessions : granted[k] \in Session
BY DEF RowsOK, Sessions

\* What is left alone still belongs after the rows have grown.
LEMMA CookiesStay == ASSUME RowsOK, BrowsersOK, CookiesBelong, Grows, UNCHANGED cookie
                     PROVE  CookiesBelong' /\ cookie' \in [Browsers -> {0} \cup Sessions']
BY DEF CookiesBelong, Grows, BrowsersOK

LEMMA PageStays ==
    \A p, b : /\ Grows /\ p.token \in {0} \cup Sessions /\ PageBelongs(p, b, granted)
              => PageBelongs(p, b, granted') /\ p.token \in {0} \cup Sessions'
BY DEF Grows, PageBelongs

LEMMA PagesStay == ASSUME RowsOK, BrowsersOK, PagesBelong, Grows, UNCHANGED tab
                   PROVE  /\ PagesBelong' /\ tab' \in [Tabs -> Page]
                          /\ \A t \in Tabs : tab'[t].token \in {0} \cup Sessions'
BY PageStays DEF PagesBelong, BrowsersOK

LEMMA RowStays == \A r : Grows /\ CallBelongs(r, granted) => CallBelongs(r, granted')
BY DEF Grows, CallBelongs, Sessions

LEMMA LineageStays == ASSUME RowsOK, LineageOK, Grows, UNCHANGED granted PROVE LineageOK'
BY DEF LineageOK, Grows, Sessions

LEMMA StutterGrows == ASSUME RowsOK, UNCHANGED rows PROVE Grows
BY DEF RowsOK, Grows, rows, Sessions

-----------------------------------------------------------------------------
(***************************************************************************)
(* The server's steps.                                                     *)
(***************************************************************************)
LEMMA ServedBelongs ==
    ASSUME RowsOK, CallsOK, CallsBelong, Grows, NEW c \in DOMAIN call,
           NEW pc \in {"asked", "read", "answered", "over"}, NEW got \in Nat,
           Served(c, pc, got), got \in {0} \cup Sessions',
           got # 0 => granted'[got].agent = call[c].by,
           call[c].req = "refresh" /\ pc = "read" => call[c].key # 0
    PROVE  CallsOK' /\ CallsBelong'
<1>1. /\ CallsOK' /\ DOMAIN call' = DOMAIN call
      /\ \A d \in DOMAIN call : Kept(d) /\ call'[d].tab = call[d].tab
      /\ \A d \in DOMAIN call : d # c => call'[d] = call[d]
      /\ call'[c].pc = pc /\ call'[c].got = got
    BY ServedCalls
<1>2. \A d \in DOMAIN call : CallBelongs(call[d], granted) /\ CallBelongs(call[d], granted')
    BY RowStays DEF CallsBelong
<1>3. ASSUME NEW d \in DOMAIN call, d # c PROVE CallBelongs(call'[d], granted')
    BY <1>1, <1>2, <1>3, RowStays
<1>4. CallBelongs(call'[c], granted')
    BY <1>1, <1>2 DEF CallBelongs, Kept, Sessions
<1> QED BY <1>1, <1>3, <1>4 DEF CallsBelong

\* A new session gets the next row.
LEMMA IssueGrows ==
    ASSUME RowsOK, CallsOK, NEW c \in DOMAIN call, NEW user \in Users, NEW parent \in Nat,
           granted' = Append(granted, NewSession(user, call[c].by, parent)),
           revoked \subseteq revoked', revoked' \subseteq Sessions,
           UNCHANGED <<expired, lapsed>>
    PROVE  LET k == Len(granted) + 1 IN
           /\ Grows /\ k \in Nat /\ k \notin Sessions /\ Sessions' = Sessions \cup {k}
           /\ granted'[k].agent = call[c].by /\ granted'[k].user = user
           /\ granted'[k].parent = parent
<1> DEFINE k == Len(granted) + 1
           s == NewSession(user, call[c].by, parent)
<1>1. call[c] \in Call
    BY DEF CallsOK
<1>2. s \in Session /\ s.agent = call[c].by /\ s.user = user /\ s.parent = parent
    BY <1>1 DEF NewSession, Session, Call
<1> HIDE DEF s
<1>3. granted \in Seq(Session) /\ granted' = Append(granted, s)
    BY DEF RowsOK, s
<1>4. /\ granted' \in Seq(Session) /\ k \notin Sessions /\ Sessions' = Sessions \cup {k}
      /\ \A j \in Sessions : granted'[j] = granted[j]
      /\ granted'[k] = s
    BY <1>2, <1>3, AppendSeq DEF Sessions
<1>5. k \in Nat
    BY SessionsType
<1> QED BY <1>2, <1>4, <1>5 DEF Grows, RowsOK

\* CheckMe, ReadSession and LogOut issue nothing.
LEMMA ServeQuietly ==
    ASSUME IInv, NEW c \in DOMAIN call, CheckMe(c) \/ ReadSession(c) \/ LogOut(c)
    PROVE  IInv'
<1>1. /\ RowsOK /\ BrowsersOK /\ CallsOK /\ CookiesBelong /\ PagesBelong /\ CallsBelong
      /\ LineageOK
    BY IInvParts
<1>2. Grows /\ UNCHANGED <<granted, cookie, tab, calm>>
    BY <1>1 DEF CheckMe, ReadSession, LogOut, Grows, RowsOK, rows, Sessions, Ended
<1>3. CallBelongs(call[c], granted) /\ call[c] \in Call
    BY <1>1 DEF CallsBelong, CallsOK
<1>4. CallsOK' /\ CallsBelong'
  <2>1. CASE CheckMe(c)
    <3>1. PICK got \in {0, call[c].key} : Served(c, "answered", got)
        BY <2>1 DEF CheckMe
    <3>2. got \in Nat /\ got \in {0} \cup Sessions' /\ (got # 0 => granted'[got].agent = call[c].by)
        BY <1>2, <1>3, <3>1 DEF CallBelongs, Call, Sessions
    <3> QED BY <1>1, <1>2, <3>1, <3>2, ServedBelongs
  <2>2. CASE ReadSession(c)
    <3>1. CASE Live(call[c].key)
        BY <1>1, <1>2, <2>2, <3>1, ServedBelongs, SessionsType DEF ReadSession, Live
    <3>2. CASE ~ Live(call[c].key)
        BY <1>1, <1>2, <2>2, <3>2, ServedBelongs DEF ReadSession
    <3> QED BY <3>1, <3>2
  <2>3. CASE LogOut(c)
      BY <1>1, <1>2, <2>3, ServedBelongs DEF LogOut
  <2> QED BY <2>1, <2>2, <2>3
<1>5. CookiesBelong' /\ PagesBelong' /\ BrowsersOK'
    BY <1>1, <1>2, CookiesStay, PagesStay DEF BrowsersOK
<1>6. LineageOK'
    BY <1>1, <1>2, LineageStays
<1> QED BY <1>2, <1>4, <1>5, <1>6, IInvPartsNext DEF Grows

\* Rotate and LogIn issue a session to the browser that asks.
LEMMA RotateInv ==
    ASSUME IInv, NEW c \in DOMAIN call, Rotate(c) PROVE IInv'
<1> DEFINE p == call[c].key
           k == Len(granted) + 1
<1>1. /\ RowsOK /\ BrowsersOK /\ CallsOK /\ CookiesBelong /\ PagesBelong /\ CallsBelong
      /\ LineageOK
    BY IInvParts
<1>2. CallBelongs(call[c], granted) /\ call[c] \in Call
    BY <1>1 DEF CallsBelong, CallsOK
<1>3. p \in Sessions /\ p \in Nat /\ granted[p].agent = call[c].by /\ UserOf(p) \in Users
    BY <1>1, <1>2, SessionsType DEF CallBelongs, Rotate, Sessions, UserOf, Session
<1>4. /\ granted' = Append(granted, NewSession(UserOf(p), call[c].by, p))
      /\ Served(c, "answered", k) /\ revoked' = revoked \cup {p}
      /\ UNCHANGED <<expired, lapsed, cookie, tab, calm>>
    BY DEF Rotate, Issue
<1>5. /\ Grows /\ k \in Nat /\ k \notin Sessions /\ Sessions' = Sessions \cup {k}
      /\ granted'[k].agent = call[c].by /\ granted'[k].user = UserOf(p)
      /\ granted'[k].parent = p
  <2>1. revoked \subseteq revoked' /\ revoked' \subseteq Sessions
      BY <1>1, <1>3, <1>4 DEF RowsOK
  <2> HIDE DEF p
  <2> QED BY <1>1, <1>3, <1>4, <2>1, IssueGrows
<1> HIDE DEF p
<1>6. CallsOK' /\ CallsBelong'
    BY <1>1, <1>4, <1>5, ServedBelongs
<1>7. CookiesBelong' /\ PagesBelong' /\ BrowsersOK'
    BY <1>1, <1>4, <1>5, CookiesStay, PagesStay DEF BrowsersOK
<1>8. LineageOK'
  <2>1. \A j \in Sessions : granted[j].parent # 0 => granted[j].parent \in Sessions
      BY <1>1 DEF LineageOK, RowsOK
  <2>2. p < k
      BY <1>3, SessionsType, <1>1
  <2> DEFINE Descends(g, r, j) == g[j].parent # 0 =>
                /\ g[j].parent < j /\ g[j].parent \in r
                /\ g[g[j].parent].user = g[j].user /\ g[g[j].parent].agent = g[j].agent
  <2>3. \A j \in Sessions : Descends(granted, revoked, j)
      BY <1>1 DEF LineageOK
  <2>4. \A j \in Sessions : Descends(granted', revoked', j)
      BY <1>5, <2>1, <2>3 DEF Grows
  <2>5. Descends(granted', revoked', k)
      BY <1>3, <1>4, <1>5, <2>2 DEF Grows, UserOf
  <2> QED BY <1>5, <2>4, <2>5 DEF LineageOK
<1> QED BY <1>1, <1>5, <1>6, <1>7, <1>8, IInvPartsNext DEF Grows

LEMMA LogInInv ==
    ASSUME IInv, NEW c \in DOMAIN call, LogIn(c) PROVE IInv'
<1> DEFINE k == Len(granted) + 1
<1>1. /\ RowsOK /\ BrowsersOK /\ CallsOK /\ CookiesBelong /\ PagesBelong /\ CallsBelong
      /\ LineageOK
    BY IInvParts
<1>2. call[c].who \in Users \cup {None} /\ UNCHANGED <<revoked, expired, lapsed, cookie, tab, calm>>
  <2>1. call[c] \in Call
      BY <1>1 DEF CallsOK
  <2> QED BY <2>1 DEF Call, LogIn
<1>3. CASE call[c].who = None
  <2>1. UNCHANGED granted /\ Served(c, "answered", 0)
      BY <1>3 DEF LogIn
  <2>2. Grows
      BY <1>1, <1>2, <2>1, StutterGrows DEF rows
  <2>3. CallsOK' /\ CallsBelong'
      BY <1>1, <2>1, <2>2, ServedBelongs
  <2>4. CookiesBelong' /\ PagesBelong' /\ BrowsersOK' /\ LineageOK'
      BY <1>1, <1>2, <2>1, <2>2, CookiesStay, PagesStay, LineageStays DEF BrowsersOK
  <2> QED BY <2>2, <2>3, <2>4, IInvPartsNext DEF Grows
<1>4. CASE call[c].who # None
  <2>1. /\ granted' = Append(granted, NewSession(call[c].who, call[c].by, 0))
        /\ Served(c, "answered", k) /\ call[c].who \in Users
      BY <1>2, <1>4 DEF LogIn, Issue
  <2>2. /\ Grows /\ k \in Nat /\ k \notin Sessions /\ Sessions' = Sessions \cup {k}
        /\ granted'[k].agent = call[c].by /\ granted'[k].parent = 0
      BY <1>1, <1>2, <2>1, IssueGrows DEF RowsOK
  <2>3. CallsOK' /\ CallsBelong'
      BY <1>1, <2>1, <2>2, ServedBelongs
  <2>4. CookiesBelong' /\ PagesBelong' /\ BrowsersOK'
      BY <1>1, <1>2, <2>2, CookiesStay, PagesStay DEF BrowsersOK
  <2>5. LineageOK'
    <3>1. \A j \in Sessions : granted[j].parent # 0 => granted[j].parent \in Sessions
        BY <1>1 DEF LineageOK, RowsOK
    <3> QED BY <1>1, <1>2, <2>2, <3>1 DEF LineageOK, Grows
  <2> QED BY <2>2, <2>3, <2>4, <2>5, IInvPartsNext DEF Grows
<1> QED BY <1>3, <1>4

-----------------------------------------------------------------------------
(***************************************************************************)
(* The page's steps.                                                       *)
(***************************************************************************)
LEMMA AddCall ==
    ASSUME NEW f \in Seq(Call), \A d \in DOMAIN f : CallBelongs(f[d], granted),
           NEW r \in Call, CallBelongs(r, granted), call' = Append(f, r), UNCHANGED granted
    PROVE  CallsOK' /\ CallsBelong'
<1>1. /\ Append(f, r) \in Seq(Call) /\ DOMAIN Append(f, r) = DOMAIN f \cup {Len(f) + 1}
      /\ \A d \in DOMAIN f : Append(f, r)[d] = f[d]
      /\ Append(f, r)[Len(f) + 1] = r
    BY AppendSeq
<1> QED BY <1>1 DEF CallsOK, CallsBelong

\* What a page asks with belongs to its browser.
LEMMA AskBelongs ==
    ASSUME RowsOK, NEW t \in Tabs, NEW key \in {0} \cup Sessions,
           key # 0 => granted[key].agent = BrowserOf[t], NEW who \in Users \cup {None},
           NEW req \in {"me", "refresh", "login", "logout"}
    PROVE  Ask(req, t, key, who) \in Call /\ CallBelongs(Ask(req, t, key, who), granted)
<1>1. key \in Nat
    BY SessionsType
<1>2. Ask(req, t, key, who) \in Call
    BY <1>1, AskType
<1> QED BY <1>2 DEF Ask, CallBelongs, Sessions

LEMMA BootstrapBelongs ==
    ASSUME RowsOK, BrowsersOK, CookiesBelong, NEW t \in Tabs, NEW token \in {0} \cup Sessions,
           token # 0 => granted[token].agent = BrowserOf[t]
    PROVE  Bootstrap(t, token) \in Call /\ CallBelongs(Bootstrap(t, token), granted)
<1>1. BrowserOf[t] \in Browsers /\ None \in Users \cup {None}
    OBVIOUS
<1>2. cookie[BrowserOf[t]] \in {0} \cup Sessions
      /\ (cookie[BrowserOf[t]] # 0 => granted[cookie[BrowserOf[t]]].agent = BrowserOf[t])
    BY <1>1 DEF BrowsersOK, CookiesBelong
<1>3. CASE token = 0
    BY <1>1, <1>2, <1>3, AskBelongs DEF Bootstrap
<1>4. CASE token # 0
    BY <1>1, <1>4, AskBelongs DEF Bootstrap
<1> QED BY <1>3, <1>4

LEMMA OpenPageInv == ASSUME IInv, NEW t \in Tabs, OpenPage(t) PROVE IInv'
<1>1. /\ RowsOK /\ BrowsersOK /\ CallsOK /\ CookiesBelong /\ PagesBelong /\ CallsBelong
      /\ LineageOK
    BY IInvParts
<1>2. PICK token \in {tab[t].token, 0} :
          /\ tab' = [tab EXCEPT ![t] = NewPage("loading", token, None)]
          /\ call' = StartedCalls(t, token)
    BY DEF OpenPage
<1>3. UNCHANGED <<rows, cookie, calm>> /\ UNCHANGED granted
    BY DEF OpenPage, rows
<1>4. token \in {0} \cup Sessions /\ (token # 0 => granted[token].agent = BrowserOf[t])
    BY <1>1 DEF BrowsersOK, PagesBelong, PageBelongs
<1>5. Grows
    BY <1>1, <1>3, StutterGrows
<1>6. CallsOK' /\ CallsBelong'
  <2> DEFINE f == Abandoned(t)
             r == Bootstrap(t, token)
  <2>1. /\ f \in Seq(Call) /\ DOMAIN f = DOMAIN call
        /\ \A d \in DOMAIN call :
              /\ f[d].req = call[d].req /\ f[d].by = call[d].by /\ f[d].key = call[d].key
              /\ f[d].got = call[d].got /\ f[d].pc = call[d].pc
              /\ f[d].tab = IF call[d].tab = t THEN None ELSE call[d].tab
      BY <1>1, AbandonedCalls
  <2>2. r \in Call /\ CallBelongs(r, granted)
      BY <1>1, <1>4, BootstrapBelongs
  <2>3. call' = Append(f, r)
      BY <1>2 DEF StartedCalls
  <2> HIDE DEF f, r
  <2>4. \A d \in DOMAIN f : CallBelongs(f[d], granted)
      BY <1>1, <2>1 DEF CallsBelong, CallBelongs
  <2> QED BY <1>3, <2>1, <2>2, <2>3, <2>4, AddCall
<1>7. PagesBelong' /\ BrowsersOK'
  <2> DEFINE p == NewPage("loading", token, None)
  <2>1. token \in Nat
      BY <1>1, <1>4, SessionsType
  <2>2. p \in Page /\ p.token = token /\ p.shows = "loading"
      BY <2>1 DEF NewPage, Page
  <2> HIDE DEF p
  <2>3. tab' = [tab EXCEPT ![t] = p]
      BY <1>2 DEF p
  <2>4. tab' \in [Tabs -> Page] /\ tab'[t] = p /\ \A u \in Tabs \ {t} : tab'[u] = tab[u]
      BY <1>1, <2>2, <2>3 DEF BrowsersOK
  <2>5. PagesBelong'
      BY <1>1, <1>3, <1>4, <2>2, <2>4 DEF PagesBelong, PageBelongs
  <2> QED BY <1>1, <1>3, <1>4, <2>2, <2>4, <2>5 DEF BrowsersOK, rows, Sessions
<1>8. CookiesBelong' /\ LineageOK'
    BY <1>1, <1>3, <1>5, CookiesStay, LineageStays
<1> QED BY <1>5, <1>6, <1>7, <1>8, IInvPartsNext DEF Grows

LEMMA SubmitInv ==
    ASSUME IInv, NEW t \in Tabs, SubmitLogin(t) \/ ClickLogout(t) PROVE IInv'
<1>1. /\ RowsOK /\ BrowsersOK /\ CallsOK /\ CookiesBelong /\ PagesBelong /\ CallsBelong
      /\ LineageOK
    BY IInvParts
<1>2. UNCHANGED <<rows, cookie, tab, calm>> /\ UNCHANGED granted
    BY DEF SubmitLogin, ClickLogout, rows
<1>3. \A d \in DOMAIN call : CallBelongs(call[d], granted)
    BY <1>1 DEF CallsBelong
<1>4. CallsOK' /\ CallsBelong'
  <2>1. CASE SubmitLogin(t)
    <3>1. PICK u \in Users \cup {None} : call' = Append(call, Ask("login", t, 0, u))
        BY <2>1 DEF SubmitLogin
    <3>2. Ask("login", t, 0, u) \in Call /\ CallBelongs(Ask("login", t, 0, u), granted)
        BY <1>1, AskBelongs
    <3> QED BY <1>1, <1>2, <1>3, <3>1, <3>2, AddCall DEF CallsOK
  <2>2. CASE ClickLogout(t)
    <3> DEFINE key == cookie[BrowserOf[t]]
    <3>1. /\ key \in {0} \cup Sessions /\ (key # 0 => granted[key].agent = BrowserOf[t])
          /\ None \in Users \cup {None}
        BY <1>1 DEF BrowsersOK, CookiesBelong
    <3>2. call' = Append(call, Ask("logout", t, key, None))
        BY <2>2 DEF ClickLogout
    <3> HIDE DEF key
    <3>3. Ask("logout", t, key, None) \in Call /\ CallBelongs(Ask("logout", t, key, None), granted)
        BY <1>1, <3>1, AskBelongs
    <3> QED BY <1>1, <1>2, <1>3, <3>2, <3>3, AddCall DEF CallsOK
  <2> QED BY <2>1, <2>2
<1>5. Grows
    BY <1>1, <1>2, StutterGrows
<1>6. CookiesBelong' /\ PagesBelong' /\ BrowsersOK' /\ LineageOK'
    BY <1>1, <1>2, <1>5, CookiesStay, PagesStay, LineageStays DEF BrowsersOK
<1> QED BY <1>4, <1>5, <1>6, IInvPartsNext DEF Grows

\* The page after an answer with session k, or after an error.
LEMMA PageAfterBelongs ==
    ASSUME RowsOK, BrowsersOK, PagesBelong, NEW t \in Tabs, NEW k \in {0} \cup Sessions,
           k # 0 => granted[k].agent = BrowserOf[t],
           NEW req \in {"me", "refresh", "login", "logout"}
    PROVE  LET p == PageAfter(req, t, k) IN
           /\ p \in Page /\ p.token \in {0} \cup Sessions
           /\ PageBelongs(p, BrowserOf[t], granted)
<1>1. k \in Nat /\ (k # 0 => UserOf(k) \in Users)
    BY SessionsType DEF UserOf, Session
<1>2. tab[t] \in Page /\ tab[t].token \in {0} \cup Sessions
      /\ PageBelongs(tab[t], BrowserOf[t], granted)
    BY DEF BrowsersOK, PagesBelong
<1>3. LET p == NewPage("in", k, UserOf(k)) IN
      k # 0 => p \in Page /\ p.token \in {0} \cup Sessions /\ PageBelongs(p, BrowserOf[t], granted)
    BY <1>1 DEF NewPage, Page, PageBelongs, UserOf
<1>4. \A shows \in {"loading", "out"} : LET p == NewPage(shows, 0, None) IN
         p \in Page /\ p.token = 0 /\ PageBelongs(p, BrowserOf[t], granted)
    BY DEF NewPage, Page, PageBelongs
<1>5. PageAfter(req, t, k) = tab[t] \/ (k # 0 /\ PageAfter(req, t, k) = NewPage("in", k, UserOf(k)))
      \/ \E shows \in {"loading", "out"} : PageAfter(req, t, k) = NewPage(shows, 0, None)
    BY DEF PageAfter, SignedIn, SignedOut, Refused
<1> QED BY <1>2, <1>3, <1>4, <1>5

\* What a page makes of an answer, with the rows left alone.
LEMMA ContinueInv ==
    ASSUME RowsOK, BrowsersOK, CallsOK, CookiesBelong, PagesBelong, CallsBelong,
           NEW c \in DOMAIN call, InFlight(c), NEW pc \in {"asked", "read", "answered", "over"},
           NEW k \in {0} \cup Sessions, k # 0 => granted[k].agent = call[c].by,
           call[c].req = "refresh" /\ pc = "read" => call[c].key # 0,
           Continue(c, pc, k), UNCHANGED <<rows, calm>>
    PROVE  /\ CallsOK' /\ CallsBelong' /\ PagesBelong' /\ tab' \in [Tabs -> Page]
           /\ \A t \in Tabs : tab'[t].token \in {0} \cup Sessions
<1> DEFINE t == call[c].tab
           p == PageAfter(call[c].req, t, k)
           f == Finished(c, pc)
<1>1. call[c] \in Call /\ CallBelongs(call[c], granted) /\ UNCHANGED granted
    BY DEF CallsOK, CallsBelong, rows
<1>2. t \in Tabs /\ BrowserOf[t] = call[c].by /\ call[c].req \in {"me", "refresh", "login", "logout"}
    BY <1>1 DEF Call, CallBelongs, InFlight
<1>3. /\ tab' = [tab EXCEPT ![t] = p]
      /\ call' = f \/ call' = Append(f, Bootstrap(t, 0))
    BY DEF Continue
<1>4. /\ f \in Seq(Call) /\ DOMAIN f = DOMAIN call
      /\ \A d \in DOMAIN call : d # c => f[d] = call[d]
      /\ f[c].req = call[c].req /\ f[c].by = call[c].by /\ f[c].key = call[c].key
      /\ f[c].got = call[c].got /\ f[c].tab = None /\ f[c].pc = pc
    BY FinishedCalls
<1> HIDE DEF t, f
<1>5. p \in Page /\ p.token \in {0} \cup Sessions /\ PageBelongs(p, BrowserOf[t], granted)
    BY <1>2, PageAfterBelongs
<1> HIDE DEF p
<1>6. tab' \in [Tabs -> Page] /\ tab'[t] = p /\ \A u \in Tabs \ {t} : tab'[u] = tab[u]
    BY <1>2, <1>3, <1>5 DEF BrowsersOK
<1>7. PagesBelong' /\ \A u \in Tabs : tab'[u].token \in {0} \cup Sessions
    BY <1>1, <1>5, <1>6 DEF PagesBelong, BrowsersOK
<1>8. CallBelongs(f[c], granted)
    BY <1>1, <1>4 DEF CallBelongs
<1>9. \A d \in DOMAIN f : CallBelongs(f[d], granted)
    BY <1>4, <1>8 DEF CallsBelong
<1>10. CallsOK' /\ CallsBelong'
  <2>1. CASE call' = f
      BY <1>1, <1>4, <1>9, <2>1 DEF CallsOK, CallsBelong
  <2>2. CASE call' = Append(f, Bootstrap(t, 0))
    <3>1. Bootstrap(t, 0) \in Call /\ CallBelongs(Bootstrap(t, 0), granted)
        BY <1>2, BootstrapBelongs
    <3> QED BY <1>1, <1>4, <1>9, <2>2, <3>1, AddCall
  <2> QED BY <1>3, <2>1, <2>2
<1> QED BY <1>1, <1>6, <1>7, <1>10

LEMMA ArriveInv == ASSUME IInv, NEW c \in DOMAIN call, Arrive(c) \/ Lose(c) PROVE IInv'
<1>1. /\ RowsOK /\ BrowsersOK /\ CallsOK /\ CookiesBelong /\ PagesBelong /\ CallsBelong
      /\ LineageOK
    BY IInvParts
<1>2. UNCHANGED <<rows, calm>> /\ InFlight(c) /\ UNCHANGED granted
    BY DEF Arrive, Lose, rows
<1>3. call[c] \in Call /\ CallBelongs(call[c], granted)
    BY <1>1 DEF CallsOK, CallsBelong
<1>4. call[c].by \in Browsers /\ call[c].pc \in {"asked", "read", "answered", "over"}
      /\ call[c].got \in {0} \cup Sessions
      /\ (call[c].got # 0 => granted[call[c].got].agent = call[c].by)
    BY <1>3 DEF Call, CallBelongs, Sessions
<1>5. /\ CallsOK' /\ CallsBelong' /\ PagesBelong' /\ tab' \in [Tabs -> Page]
      /\ \A t \in Tabs : tab'[t].token \in {0} \cup Sessions
  <2>1. CASE Arrive(c)
      BY <1>1, <1>2, <1>4, <2>1, ContinueInv DEF Arrive
  <2>2. CASE Lose(c)
    <3>1. Continue(c, call[c].pc, 0) /\ (call[c].req = "refresh" /\ call[c].pc = "read" => call[c].key # 0)
        BY <1>3, <2>2 DEF Lose, CallBelongs
    <3> QED BY <1>1, <1>2, <1>4, <3>1, ContinueInv
  <2> QED BY <2>1, <2>2
<1>6. CookiesBelong' /\ cookie' \in [Browsers -> {0} \cup Sessions]
  <2>1. CASE Arrive(c)
    <3>1. CookieAfter(c) \in {0, call[c].got, cookie[call[c].by]}
        BY DEF CookieAfter
    <3>2. cookie' = [cookie EXCEPT ![call[c].by] = CookieAfter(c)]
        BY <2>1 DEF Arrive
    <3> QED BY <1>1, <1>2, <1>4, <3>1, <3>2 DEF CookiesBelong, BrowsersOK
  <2>2. CASE Lose(c)
      BY <1>1, <1>2, <2>2 DEF Lose, CookiesBelong, BrowsersOK
  <2> QED BY <2>1, <2>2
<1>7. Grows /\ Sessions' = Sessions
    BY <1>1, <1>2, StutterGrows DEF Sessions
<1>8. BrowsersOK' /\ LineageOK'
    BY <1>1, <1>2, <1>5, <1>6, <1>7, LineageStays DEF BrowsersOK
<1> QED BY <1>5, <1>6, <1>7, <1>8, IInvPartsNext DEF Grows

LEMMA TimeInv == ASSUME IInv, NEW k \in Sessions, Lapse(k) \/ Expire(k) PROVE IInv'
<1>1. /\ RowsOK /\ BrowsersOK /\ CallsOK /\ CookiesBelong /\ PagesBelong /\ CallsBelong
      /\ LineageOK
    BY IInvParts
<1>2. UNCHANGED <<granted, revoked, cookie, tab, call, calm>>
    BY DEF Lapse, Expire
<1>3. Grows
    BY <1>1, <1>2 DEF Lapse, Expire, Grows, RowsOK, Sessions
<1>4. CookiesBelong' /\ PagesBelong' /\ BrowsersOK' /\ LineageOK'
    BY <1>1, <1>2, <1>3, CookiesStay, PagesStay, LineageStays DEF BrowsersOK
<1>5. CallsOK' /\ CallsBelong'
    BY <1>1, <1>2 DEF CallsOK, CallsBelong
<1> QED BY <1>3, <1>4, <1>5, IInvPartsNext DEF Grows

LEMMA StutterInv == ASSUME IInv, UNCHANGED vars PROVE IInv'
<1>1. UNCHANGED <<granted, revoked, expired, lapsed, cookie, tab, call, calm>>
    BY DEF vars, rows
<1> QED BY <1>1 DEF IInv, TypeOK, Belongs, CookiesBelong, PagesBelong, CallsBelong, LineageOK, Sessions

-----------------------------------------------------------------------------
LEMMA NextInv == IInv /\ [Next]_vars => IInv'
<1> SUFFICES ASSUME IInv, [Next]_vars PROVE IInv'
    OBVIOUS
<1>1. ASSUME NEW t \in Tabs, OpenPage(t) PROVE IInv'
    BY <1>1, OpenPageInv
<1>2. ASSUME NEW t \in Tabs, SubmitLogin(t) \/ ClickLogout(t) PROVE IInv'
    BY <1>2, SubmitInv
<1>3. ASSUME NEW c \in DOMAIN call, Serve(c) PROVE IInv'
    BY <1>3, ServeQuietly, RotateInv, LogInInv DEF Serve
<1>4. ASSUME NEW c \in DOMAIN call, Arrive(c) \/ Lose(c) PROVE IInv'
    BY <1>4, ArriveInv
<1>5. ASSUME NEW k \in Sessions, Lapse(k) \/ Expire(k) PROVE IInv'
    BY <1>5, TimeInv
<1>6. CASE UNCHANGED vars
    BY <1>6, StutterInv
<1> QED BY <1>1, <1>2, <1>3, <1>4, <1>5, <1>6 DEF Next

LEMMA InitInv == Init => IInv
<1> SUFFICES ASSUME Init PROVE IInv
    OBVIOUS
<1>1. \A b \in Browsers : LET s == NewSession(OpeningUser[b], b, 0) IN
         s \in Session /\ s.agent = b /\ s.parent = 0
    BY DEF NewSession, Session
<1>2. granted = [b \in 1 .. BrowserCount |-> NewSession(OpeningUser[b], b, 0)]
    BY DEF Init
<1>3. /\ granted \in Seq(Session) /\ Sessions = Browsers
      /\ \A b \in Browsers : granted[b].agent = b /\ granted[b].parent = 0
    BY <1>1, <1>2 DEF Sessions
<1>4. RowsOK
    BY <1>3 DEF Init, RowsOK
<1>5. cookie \in [Browsers -> {0} \cup Sessions] /\ CookiesBelong
  <2>1. PICK signedIn \in SUBSET Browsers : cookie = [b \in Browsers |-> IF b \in signedIn THEN b ELSE 0]
      BY DEF Init
  <2>2. \A b \in Browsers : cookie[b] \in {0, b}
      BY <2>1
  <2> QED BY <1>3, <2>1, <2>2 DEF CookiesBelong
<1>6. \A t \in Tabs : tab[t] \in Page /\ tab[t].token = 0 /\ tab[t].shows = "nothing"
    BY DEF Init, NewPage, Page
<1>7. tab \in [Tabs -> Page] /\ PagesBelong
    BY <1>6 DEF Init, PagesBelong, PageBelongs
<1>8. CallsOK /\ CallsBelong
    BY DEF Init, CallsOK, CallsBelong
<1>9. LineageOK
    BY <1>3 DEF LineageOK
<1> QED BY <1>4, <1>5, <1>6, <1>7, <1>8, <1>9, IInvParts DEF BrowsersOK, Init

\* Sessions, cookies, pages and calls stay well-formed, and everything that names a
\* session names one that exists (TypeOK).
THEOREM SessionsTypeOK == Spec => []TypeOK
<1>1. IInv => TypeOK
    BY DEF IInv
<1> QED BY <1>1, InitInv, NextInv, PTL DEF Spec

\* A session that replaces another one keeps its user and its browser, and the replaced one
\* is revoked, in however many browsers and tabs refreshes, logins and logouts overlap
\* (LineageOK; auth.service.ts:37-66).
THEOREM RotationKeepsLineage == Spec => []LineageOK
<1>1. IInv => LineageOK
    BY DEF IInv
<1> QED BY <1>1, InitInv, NextInv, PTL DEF Spec

\* A page that shows the workspace shows the user its access token was issued to; the
\* token and the cookie were issued to this browser: what PageAgrees says of every browser,
\* calm or not (auth.ts:50-86).
PageShowsItsUser ==
    /\ \A b \in Browsers : cookie[b] # 0 => granted[cookie[b]].agent = b
    /\ \A t \in Tabs : tab[t].shows = "in" =>
          LET k == tab[t].token IN
          k # 0 /\ UserOf(k) = tab[t].user /\ granted[k].agent = BrowserOf[t]

THEOREM PagesShowTheirUser == Spec => []PageShowsItsUser
<1>1. IInv => PageShowsItsUser
    BY DEF IInv, Belongs, CookiesBelong, PagesBelong, PageBelongs, PageShowsItsUser, UserOf
<1> QED BY <1>1, InitInv, NextInv, PTL DEF Spec

-----------------------------------------------------------------------------
(***************************************************************************)
(* The start of a page.  That a page with the spinner waits for one call   *)
(* only is not inductive by itself: one has to know as well that a call to *)
(* me or refresh is waited for by no other page.                           *)
(***************************************************************************)
Waits(r, t) == r.tab = t /\ r.pc # "over"
Starts(r) == r.req \in {"me", "refresh"}

Alone(t, p, s) == p.shows = "loading" =>
    \E c \in DOMAIN s : Waits(s[c], t) /\ Starts(s[c]) /\ \A d \in DOMAIN s : d # c => ~ Waits(s[d], t)
OnlyLoading(t, p, s) == p.shows # "loading" => \A c \in DOMAIN s : ~ (Waits(s[c], t) /\ Starts(s[c]))
StartInv == \A t \in Tabs : Alone(t, tab[t], call) /\ OnlyLoading(t, tab[t], call)

\* Nothing changes for a page if the same calls are waited for.
LEMMA SameWaits ==
    \A t, p, s, z : /\ Alone(t, p, s) /\ OnlyLoading(t, p, s) /\ DOMAIN s \subseteq DOMAIN z
                    /\ \A d \in DOMAIN s : (Waits(z[d], t) <=> Waits(s[d], t)) /\ z[d].req = s[d].req
                    /\ \A d \in DOMAIN z \ DOMAIN s : ~ Waits(z[d], t)
                    => Alone(t, p, z) /\ OnlyLoading(t, p, z)
<1> SUFFICES ASSUME NEW t, NEW p, NEW s, NEW z,
                    Alone(t, p, s), OnlyLoading(t, p, s), DOMAIN s \subseteq DOMAIN z,
                    \A d \in DOMAIN s : (Waits(z[d], t) <=> Waits(s[d], t)) /\ z[d].req = s[d].req,
                    \A d \in DOMAIN z \ DOMAIN s : ~ Waits(z[d], t)
             PROVE  Alone(t, p, z) /\ OnlyLoading(t, p, z)
    OBVIOUS
<1>1. Alone(t, p, z)
  <2> SUFFICES ASSUME p.shows = "loading" PROVE Alone(t, p, z)
      BY DEF Alone
  <2>1. PICK c \in DOMAIN s : /\ Waits(s[c], t) /\ Starts(s[c])
                              /\ \A d \in DOMAIN s : d # c => ~ Waits(s[d], t)
      BY DEF Alone
  <2>2. c \in DOMAIN z /\ Waits(z[c], t) /\ Starts(z[c])
      BY <2>1 DEF Starts
  <2>3. \A d \in DOMAIN z : d # c => ~ Waits(z[d], t)
      BY <2>1
  <2> QED BY <2>2, <2>3 DEF Alone
<1>2. OnlyLoading(t, p, z)
    BY DEF OnlyLoading, Starts
<1> QED BY <1>1, <1>2

LEMMA ServeStart ==
    ASSUME CallsOK, StartInv, NEW c \in DOMAIN call, Serve(c) PROVE StartInv'
<1>1. UNCHANGED tab
    BY DEF Serve, CheckMe, ReadSession, Rotate, LogIn, LogOut
<1>2. call[c].pc \in {"asked", "read"}
    BY DEF Serve, CheckMe, ReadSession, Rotate, LogIn, LogOut
<1>3. PICK pc \in {"read", "answered"} : \E got : Served(c, pc, got)
    BY DEF Serve, CheckMe, ReadSession, Rotate, LogIn, LogOut, Issue
<1>4. PICK got : Served(c, pc, got)
    BY <1>3
<1> DEFINE r == [req |-> call[c].req, by |-> call[c].by, tab |-> call[c].tab,
                 key |-> call[c].key, who |-> call[c].who, pc |-> pc, got |-> got]
<1>5. call' = [call EXCEPT ![c] = r] /\ r.req = call[c].req /\ r.tab = call[c].tab /\ r.pc = pc
    BY <1>4 DEF Served
<1> HIDE DEF r
<1>6. DOMAIN call' = DOMAIN call /\ \A d \in DOMAIN call : call'[d] = IF d = c THEN r ELSE call[d]
    BY <1>5
<1>7. \A t \in Tabs, d \in DOMAIN call :
         (Waits(call'[d], t) <=> Waits(call[d], t)) /\ call'[d].req = call[d].req
    BY <1>2, <1>3, <1>5, <1>6 DEF Waits
<1> QED BY <1>1, <1>6, <1>7, SameWaits DEF StartInv

LEMMA SubmitStart ==
    ASSUME CallsOK, StartInv, NEW t \in Tabs, SubmitLogin(t) \/ ClickLogout(t) PROVE StartInv'
<1>1. UNCHANGED tab /\ tab[t].shows # "loading"
    BY DEF SubmitLogin, ClickLogout, LoginShown
<1>2. PICK req \in {"login", "logout"} : \E key, who : call' = Append(call, Ask(req, t, key, who))
    BY DEF SubmitLogin, ClickLogout
<1>8. PICK key, who : call' = Append(call, Ask(req, t, key, who))
    BY <1>2
<1> DEFINE r == Ask(req, t, key, who)
<1>3. call' = Append(call, r) /\ r.req = req /\ r.tab = t
    BY <1>8 DEF Ask
<1> HIDE DEF r
<1>4. /\ DOMAIN call' = DOMAIN call \cup {Len(call) + 1} /\ Len(call) + 1 \notin DOMAIN call
      /\ \A d \in DOMAIN call : call'[d] = call[d]
      /\ call'[Len(call) + 1] = r
    BY <1>3 DEF CallsOK
<1>5. ASSUME NEW u \in Tabs \ {t} PROVE Alone(u, tab[u], call') /\ OnlyLoading(u, tab[u], call')
  <2>1. Alone(u, tab[u], call) /\ OnlyLoading(u, tab[u], call)
      BY DEF StartInv
  <2>2. \A d \in DOMAIN call : (Waits(call'[d], u) <=> Waits(call[d], u)) /\ call'[d].req = call[d].req
      BY <1>4
  <2>3. \A d \in DOMAIN call' \ DOMAIN call : ~ Waits(call'[d], u)
      BY <1>3, <1>4 DEF Waits
  <2> QED BY <1>4, <2>1, <2>2, <2>3, SameWaits
<1>6. Alone(t, tab[t], call')
    BY <1>1 DEF Alone
<1>7. OnlyLoading(t, tab[t], call')
    BY <1>2, <1>3, <1>4 DEF StartInv, OnlyLoading, Starts
<1> QED BY <1>1, <1>5, <1>6, <1>7 DEF StartInv

LEMMA BootstrapStarts ==
    ASSUME NEW t \in Tabs, NEW token
    PROVE  Bootstrap(t, token).tab = t /\ Bootstrap(t, token).pc = "asked" /\ Starts(Bootstrap(t, token))
BY DEF Bootstrap, Ask, Starts

LEMMA OpenPageStart ==
    ASSUME CallsOK, BrowsersOK, StartInv, NEW t \in Tabs, OpenPage(t) PROVE StartInv'
<1>1. PICK token : /\ tab' = [tab EXCEPT ![t] = NewPage("loading", token, None)]
                   /\ call' = Append(Abandoned(t), Bootstrap(t, token))
    BY DEF OpenPage, StartedCalls
<1> DEFINE f == Abandoned(t)
           r == Bootstrap(t, token)
           n == Len(f) + 1
<1>2. /\ f \in Seq(Call) /\ DOMAIN f = DOMAIN call
      /\ \A d \in DOMAIN call : f[d].req = call[d].req /\ f[d].pc = call[d].pc
                                 /\ f[d].tab = IF call[d].tab = t THEN None ELSE call[d].tab
    BY AbandonedCalls
<1>3. r.tab = t /\ r.pc = "asked" /\ Starts(r)
    BY BootstrapStarts
<1>4. call' = Append(f, r) /\ tab'[t].shows = "loading" /\ \A u \in Tabs \ {t} : tab'[u] = tab[u]
    BY <1>1 DEF BrowsersOK, NewPage
<1> HIDE DEF f, r
<1>5. /\ DOMAIN call' = DOMAIN call \cup {n} /\ n \notin DOMAIN call
      /\ \A d \in DOMAIN call : call'[d] = f[d]
      /\ call'[n] = r
    BY <1>2, <1>4
<1> HIDE DEF n
<1>6. ASSUME NEW u \in Tabs \ {t} PROVE Alone(u, tab'[u], call') /\ OnlyLoading(u, tab'[u], call')
  <2>1. \A d \in DOMAIN call : (Waits(call'[d], u) <=> Waits(call[d], u)) /\ call'[d].req = call[d].req
      BY <1>2, <1>5 DEF Waits
  <2>2. \A d \in DOMAIN call' \ DOMAIN call : ~ Waits(call'[d], u)
      BY <1>3, <1>5 DEF Waits
  <2>3. Alone(u, tab'[u], call) /\ OnlyLoading(u, tab'[u], call)
      BY <1>4 DEF StartInv
  <2> QED BY <1>5, <2>1, <2>2, <2>3, SameWaits
<1>7. Alone(t, tab'[t], call') /\ OnlyLoading(t, tab'[t], call')
  <2>1. \A d \in DOMAIN call : ~ Waits(call'[d], t)
      BY <1>2, <1>5 DEF Waits
  <2>2. Waits(call'[n], t) /\ Starts(call'[n])
      BY <1>3, <1>5 DEF Waits
  <2> QED BY <1>4, <1>5, <2>1, <2>2 DEF Alone, OnlyLoading
<1> QED BY <1>6, <1>7 DEF StartInv

LEMMA ContinueStart ==
    ASSUME CallsOK, BrowsersOK, StartInv, NEW c \in DOMAIN call, InFlight(c),
           NEW pc \in {"asked", "read", "answered", "over"}, NEW k, Continue(c, pc, k)
    PROVE  StartInv'
<1> DEFINE t == call[c].tab
           f == Finished(c, pc)
           n == Len(f) + 1
<1>1. call[c] \in Call
    BY DEF CallsOK
<1>2. t \in Tabs /\ Waits(call[c], t)
    BY <1>1 DEF InFlight, Call, Waits
<1>3. /\ f \in Seq(Call) /\ DOMAIN f = DOMAIN call
      /\ \A d \in DOMAIN call : d # c => f[d] = call[d]
      /\ f[c].req = call[c].req /\ f[c].tab = None
    BY FinishedCalls
<1>4. /\ tab' = [tab EXCEPT ![t] = PageAfter(call[c].req, t, k)]
      /\ IF call[c].req = "me" /\ k = 0 THEN call' = Append(f, Bootstrap(t, 0)) ELSE call' = f
    BY DEF Continue
<1> HIDE DEF t, f
<1>5. tab'[t] = PageAfter(call[c].req, t, k) /\ \A u \in Tabs \ {t} : tab'[u] = tab[u]
    BY <1>2, <1>4 DEF BrowsersOK
<1>6. \A u \in Tabs, d \in DOMAIN call : u # t =>
         (Waits(f[d], u) <=> Waits(call[d], u)) /\ f[d].req = call[d].req
    BY <1>2, <1>3 DEF Waits
<1>7. ~ Waits(f[c], t)
    BY <1>2, <1>3 DEF Waits
<1>8. \A d \in DOMAIN call : ~ (Waits(f[d], t) /\ Starts(f[d]))
  <2>1. CASE tab[t].shows = "loading"
    <3>1. \A d \in DOMAIN call : d # c => ~ Waits(call[d], t)
        BY <1>2, <2>1 DEF StartInv, Alone
    <3> QED BY <1>3, <1>7, <3>1
  <2>2. CASE tab[t].shows # "loading"
      BY <1>2, <1>3, <1>7, <2>2 DEF StartInv, OnlyLoading
  <2> QED BY <2>1, <2>2
<1>9. CASE call[c].req = "me" /\ k = 0
  <2> DEFINE r == Bootstrap(t, 0)
  <2>1. r.tab = t /\ r.pc = "asked" /\ Starts(r)
      BY <1>2, BootstrapStarts
  <2>2. call' = Append(f, r) /\ tab'[t].shows = "loading"
      BY <1>4, <1>5, <1>9 DEF PageAfter, NewPage
  <2> HIDE DEF r
  <2>3. /\ DOMAIN call' = DOMAIN call \cup {n} /\ n \notin DOMAIN call
        /\ \A d \in DOMAIN call : call'[d] = f[d]
        /\ call'[n] = r
      BY <1>3, <2>2
  <2> HIDE DEF n
  <2>4. \A u \in Tabs \ {t} : Alone(u, tab'[u], call') /\ OnlyLoading(u, tab'[u], call')
    <3> SUFFICES ASSUME NEW u \in Tabs \ {t}
                 PROVE  Alone(u, tab'[u], call') /\ OnlyLoading(u, tab'[u], call')
        OBVIOUS
    <3>1. \A d \in DOMAIN call' \ DOMAIN call : ~ Waits(call'[d], u)
        BY <2>1, <2>3 DEF Waits
    <3>2. Alone(u, tab'[u], call) /\ OnlyLoading(u, tab'[u], call)
        BY <1>5 DEF StartInv
    <3>3. \A d \in DOMAIN call : (Waits(call'[d], u) <=> Waits(call[d], u)) /\ call'[d].req = call[d].req
        BY <1>6, <2>3
    <3> QED BY <2>3, <3>1, <3>2, <3>3, SameWaits
  <2>5. \A d \in DOMAIN call : ~ Waits(f[d], t)
    <3>1. tab[t].shows = "loading"
        BY <1>2, <1>9 DEF StartInv, OnlyLoading, Starts
    <3>2. \A d \in DOMAIN call : d # c => ~ Waits(call[d], t)
        BY <1>2, <3>1 DEF StartInv, Alone
    <3> QED BY <1>3, <1>7, <3>2
  <2>6. Alone(t, tab'[t], call') /\ OnlyLoading(t, tab'[t], call')
    <3>1. Waits(call'[n], t) /\ Starts(call'[n])
        BY <2>1, <2>3 DEF Waits
    <3> QED BY <2>2, <2>3, <2>5, <3>1 DEF Alone, OnlyLoading
  <2> QED BY <2>4, <2>6 DEF StartInv
<1>10. CASE ~ (call[c].req = "me" /\ k = 0)
  <2>1. call' = f
      BY <1>4, <1>10
  <2>2. \A u \in Tabs \ {t} : Alone(u, tab'[u], call') /\ OnlyLoading(u, tab'[u], call')
    <3> SUFFICES ASSUME NEW u \in Tabs \ {t}
                 PROVE  Alone(u, tab'[u], call') /\ OnlyLoading(u, tab'[u], call')
        OBVIOUS
    <3>1. DOMAIN call' = DOMAIN call
        BY <1>3, <2>1
    <3>2. Alone(u, tab'[u], call) /\ OnlyLoading(u, tab'[u], call)
        BY <1>5 DEF StartInv
    <3>3. \A d \in DOMAIN call : (Waits(call'[d], u) <=> Waits(call[d], u)) /\ call'[d].req = call[d].req
        BY <1>6, <2>1
    <3> QED BY <3>1, <3>2, <3>3, SameWaits
  <2>3. OnlyLoading(t, tab'[t], call')
      BY <1>3, <1>8, <2>1 DEF OnlyLoading
  <2>4. tab'[t].shows # "loading"
    <3>1. CASE tab'[t] = tab[t] /\ call[c].req = "login"
      <4>1. ~ Starts(call[c])
          BY <3>1 DEF Starts
      <4> QED BY <1>2, <3>1, <4>1 DEF StartInv, Alone
    <3>2. CASE tab'[t].shows \in {"in", "out"}
        BY <3>2
    <3>3. call[c].req \in {"me", "refresh", "login", "logout"}
        BY <1>1 DEF Call
    <3> QED BY <1>5, <1>10, <3>1, <3>2, <3>3
            DEF PageAfter, SignedIn, SignedOut, Refused, NewPage
  <2> QED BY <2>2, <2>3, <2>4 DEF StartInv, Alone
<1> QED BY <1>9, <1>10

LEMMA NextStart == IInv /\ StartInv /\ [Next]_vars => StartInv'
<1> SUFFICES ASSUME IInv, StartInv, [Next]_vars PROVE StartInv'
    OBVIOUS
<1>1. CallsOK /\ BrowsersOK
    BY IInvParts
<1>2. \A c \in DOMAIN call : call[c].pc \in {"asked", "read", "answered", "over"}
  <2>1. \A c \in DOMAIN call : call[c] \in Call
      BY <1>1 DEF CallsOK
  <2> QED BY <2>1 DEF Call
<1>3. ASSUME NEW t \in Tabs, OpenPage(t) PROVE StartInv'
    BY <1>1, <1>3, OpenPageStart
<1>4. ASSUME NEW t \in Tabs, SubmitLogin(t) \/ ClickLogout(t) PROVE StartInv'
    BY <1>1, <1>4, SubmitStart
<1>5. ASSUME NEW c \in DOMAIN call, Serve(c) PROVE StartInv'
    BY <1>1, <1>5, ServeStart
<1>6. ASSUME NEW c \in DOMAIN call, Arrive(c) \/ Lose(c) PROVE StartInv'
    BY <1>1, <1>2, <1>6, ContinueStart DEF Arrive, Lose
<1>7. ASSUME NEW k \in Sessions, Lapse(k) \/ Expire(k) PROVE StartInv'
    BY <1>7 DEF Lapse, Expire, StartInv
<1>8. CASE UNCHANGED vars
    BY <1>8 DEF vars, StartInv
<1> QED BY <1>3, <1>4, <1>5, <1>6, <1>7, <1>8 DEF Next

\* A page that shows the spinner waits for exactly one answer, to me or refresh, and no
\* login or logout of the same page is under way (BootstrapIsAlone; App.tsx:147-154).
THEOREM BootstrapWaitsAlone == Spec => []BootstrapIsAlone
<1>1. Init => StartInv
    BY DEF Init, StartInv, Alone, OnlyLoading, NewPage
<1>2. StartInv => BootstrapIsAlone
  <2>1. \A t \in Tabs, c \in DOMAIN call : Waits(call[c], t) <=> InFlight(c) /\ call[c].tab = t
      BY DEF Waits, InFlight
  <2> QED BY <2>1 DEF StartInv, Alone, Starts, BootstrapIsAlone
<1> QED BY <1>1, <1>2, InitInv, NextInv, NextStart, PTL DEF Spec

-----------------------------------------------------------------------------
(***************************************************************************)
(* A browser that does one thing at a time.  At most one of its calls is   *)
(* open, and only one of its tabs is in use; so what a call read when it   *)
(* was asked is still so when the server carries it out and when its       *)
(* answer arrives.  That the only live session is the cookie's is not      *)
(* inductive by itself: between the making of an answer and its arrival    *)
(* the live session is the one in the answer, and the cookie's is dead.    *)
(***************************************************************************)
Open(r) == (r.tab # None /\ r.pc # "over") \/ r.pc \in {"asked", "read"}
OpenAt(b) == {c \in DOMAIN call : Open(call[c]) /\ call[c].by = b}

TabsAt(b) ==
    /\ \A t, u \in Tabs :
          BrowserOf[t] = b /\ BrowserOf[u] = b /\ tab[t].shows # "nothing"
              /\ tab[u].shows # "nothing" => t = u
    /\ \A t \in Tabs : BrowserOf[t] = b /\ tab[t].shows = "nothing" => tab[t].token = 0

\* What an open call goes by is what the browser holds.
CallFits(r) ==
    /\ r.tab \in Tabs /\ tab[r.tab].shows # "nothing"
    /\ r.req = "me" => r.key = tab[r.tab].token /\ r.got \in {0, r.key}
    /\ r.req \in {"refresh", "logout"} /\ r.pc \in {"asked", "read"} => r.key = cookie[r.by]
    /\ r.req = "refresh" /\ r.pc = "read" => r.key \notin revoked
    /\ r.req = "login" => tab[r.tab].shows = "out"
    /\ r.req # "me" /\ r.pc = "answered" => ~ Live(cookie[r.by])

\* A page and the cookie are of the same user; at the login form the cookie is dead.
PageFits(t) ==
    LET b == BrowserOf[t] IN
    /\ tab[t].token # 0 /\ cookie[b] # 0 => UserOf(tab[t].token) = UserOf(cookie[b])
    /\ tab[t].shows = "out" => ~ Live(cookie[b])

\* A live session is the cookie's or on its way to the cookie.
InAnswer(k, b) == \E c \in OpenAt(b) :
    call[c].got = k /\ call[c].req \in {"login", "refresh"} /\ call[c].pc = "answered"
Reachable(b) == \A k \in Sessions :
    Live(k) /\ granted[k].agent = b => cookie[b] = k \/ InAnswer(k, b)

CalmAt(b) ==
    /\ \A c, d \in OpenAt(b) : c = d
    /\ TabsAt(b)
    /\ \A c \in OpenAt(b) : CallFits(call[c])
    /\ \A t \in Tabs : BrowserOf[t] = b => PageFits(t)
    /\ Reachable(b)

OneSuccessor == \A j, k \in Sessions :
    granted[j].parent = granted[k].parent /\ granted[k].parent # 0 => j = k

CalmInv == calm => OneSuccessor /\ \A b \in Browsers : CalmAt(b)


\* A step that stays within browser b: the other browsers' calls, tabs and cookies are as
\* before, and their sessions neither begin nor end.
Within(b) ==
    /\ \A e \in Browsers : e # b =>
          /\ OpenAt(e)' = OpenAt(e) /\ cookie'[e] = cookie[e]
          /\ \A c \in OpenAt(e) : call'[c] = call[c]
    /\ \A t \in Tabs : BrowserOf[t] # b => tab'[t] = tab[t]
    /\ revoked \subseteq revoked' /\ expired' = expired
    /\ Sessions \subseteq Sessions' /\ \A k \in Sessions : granted'[k] = granted[k]
    /\ \A k \in Sessions' : granted'[k].agent # b =>
          k \in Sessions /\ (k \in revoked' => k \in revoked)

\* A session that is not live does not become live again, except by being made.
LEMMA StaysDead ==
    ASSUME RowsOK, RowsOK', revoked \subseteq revoked', expired \subseteq expired',
           NEW k \in {0} \cup Sessions, ~ Live(k)
    PROVE  ~ Live(k)'
BY SessionsType DEF Live, RowsOK, Sessions

LEMMA Elsewhere ==
    ASSUME IInv, IInv', NEW b \in Browsers, NEW e \in Browsers, e # b, Within(b), CalmAt(e)
    PROVE  CalmAt(e)'
<1>1. /\ RowsOK /\ BrowsersOK /\ CallsOK /\ CookiesBelong /\ PagesBelong /\ CallsBelong
      /\ RowsOK'
    BY IInvParts, IInvPartsNext
<1>2. /\ OpenAt(e)' = OpenAt(e) /\ cookie'[e] = cookie[e]
      /\ \A c \in OpenAt(e) : call'[c] = call[c] /\ c \in DOMAIN call
      /\ \A t \in Tabs : BrowserOf[t] = e => tab'[t] = tab[t]
      /\ revoked \subseteq revoked' /\ expired' = expired
      /\ Sessions \subseteq Sessions' /\ \A k \in Sessions : granted'[k] = granted[k]
    BY DEF Within, OpenAt
<1>3. ~ Live(cookie[e]) => ~ Live(cookie[e])'
  <2>1. PICK k \in {0} \cup Sessions : k = cookie[e]
      BY <1>1 DEF BrowsersOK
  <2>2. ~ Live(k) => ~ Live(k)'
      BY <1>1, <1>2, StaysDead
  <2> QED BY <1>2, <2>1, <2>2 DEF Live
<1>4. ASSUME NEW c \in OpenAt(e) PROVE CallFits(call[c])'
  <2>1. PICK r \in Call : r = call[c] /\ r = call'[c]
      BY <1>1, <1>2 DEF CallsOK
  <2>2. CallFits(r) /\ CallBelongs(r, granted) /\ r.by = e
      BY <1>1, <1>2, <2>1 DEF CalmAt, OpenAt, CallsBelong
  <2>3. r.tab \in Tabs /\ BrowserOf[r.tab] = e
      BY <2>2 DEF CallFits, CallBelongs
  <2>4. tab'[r.tab] = tab[r.tab]
      BY <1>2, <2>3
  <2>5. r.req = "refresh" /\ r.pc = "read" => r.key \notin revoked'
    <3> SUFFICES ASSUME r.req = "refresh", r.pc = "read" PROVE r.key \notin revoked'
        OBVIOUS
    <3>1. r.key \in Sessions /\ granted[r.key].agent = e /\ r.key \notin revoked
        BY <2>2 DEF CallFits, CallBelongs, Sessions
    <3> QED BY <3>1 DEF Within
  <2>6. CallFits(r)'
      BY <1>2, <1>3, <2>2, <2>4, <2>5 DEF CallFits, Live
  <2> QED BY <2>1, <2>6 DEF CallFits, Live
<1>5. ASSUME NEW t \in Tabs, BrowserOf[t] = e PROVE PageFits(t)'
  <2>1. tab'[t] = tab[t] /\ PageFits(t) /\ tab[t].token \in {0} \cup Sessions
        /\ cookie[e] \in {0} \cup Sessions
      BY <1>1, <1>2, <1>5 DEF CalmAt, BrowsersOK
  <2> QED BY <1>2, <1>3, <1>5, <2>1 DEF PageFits, UserOf, Live
<1>6. Reachable(e)'
  <2> SUFFICES ASSUME NEW k \in Sessions', Live(k)', granted'[k].agent = e
               PROVE  cookie'[e] = k \/ InAnswer(k, e)'
      BY DEF Reachable
  <2>1. k \in Sessions /\ Live(k) /\ granted[k].agent = e
      BY <1>2 DEF Within, Live
  <2>2. cookie[e] = k \/ InAnswer(k, e)
      BY <2>1 DEF CalmAt, Reachable
  <2>3. InAnswer(k, e) => InAnswer(k, e)'
      BY <1>2 DEF InAnswer
  <2> QED BY <1>2, <2>2, <2>3
<1>7. TabsAt(e)'
    BY <1>2 DEF CalmAt, TabsAt
<1> QED BY <1>2, <1>4, <1>5, <1>6, <1>7 DEF CalmAt

\* So a step within a browser has only that browser to look after.
LEMMA WithinCalm ==
    ASSUME IInv, IInv', CalmInv, calm' = calm, NEW b \in Browsers, calm => Within(b) /\ CalmAt(b)',
           calm => OneSuccessor'
    PROVE  CalmInv'
BY Elsewhere DEF CalmInv

\* New sessions are the successors of sessions that had none.
LEMMA NoNewSuccessor ==
    ASSUME UNCHANGED granted, OneSuccessor PROVE OneSuccessor'
BY DEF OneSuccessor, Sessions

\* The server's part of a call that a page waits for leaves the same calls open.
LEMMA ServedOpen ==
    ASSUME CallsOK, NEW c \in DOMAIN call, call[c].pc \in {"asked", "read"}, call[c].tab # None,
           NEW pc \in {"read", "answered"}, NEW got \in Nat, Served(c, pc, got)
    PROVE  /\ \A e : OpenAt(e)' = OpenAt(e)
           /\ \A d \in DOMAIN call : d # c => call'[d] = call[d]
           /\ Kept(c) /\ call'[c].tab = call[c].tab /\ call'[c].pc = pc /\ call'[c].got = got
<1>1. /\ DOMAIN call' = DOMAIN call
      /\ \A d \in DOMAIN call : Kept(d) /\ call'[d].tab = call[d].tab
      /\ \A d \in DOMAIN call : d # c => call'[d] = call[d]
      /\ call'[c].pc = pc /\ call'[c].got = got
    BY ServedCalls
<1>2. \A d \in DOMAIN call : (Open(call'[d]) <=> Open(call[d])) /\ call'[d].by = call[d].by
    BY <1>1 DEF Open, Kept
<1> QED BY <1>1, <1>2 DEF OpenAt

\* What the server needs to know of a call it works on, in a calm browser.
LEMMA ServedCalm ==
    ASSUME IInv, NEW c \in DOMAIN call, call[c].pc \in {"asked", "read"},
           \A b \in Browsers : CalmAt(b)
    PROVE  /\ call[c] \in Call /\ CallFits(call[c]) /\ CallBelongs(call[c], granted)
           /\ call[c].by \in Browsers /\ call[c].tab # None /\ c \in OpenAt(call[c].by)
           /\ BrowserOf[call[c].tab] = call[c].by
           /\ \A k \in Sessions : Live(k) /\ granted[k].agent = call[c].by
                  => cookie[call[c].by] = k
<1>1. CallsOK /\ CallsBelong
    BY IInvParts
<1>2. call[c] \in Call /\ call[c].by \in Browsers
  <2>1. call[c] \in Call
      BY <1>1 DEF CallsOK
  <2> QED BY <2>1 DEF Call
<1>3. c \in OpenAt(call[c].by)
    BY DEF OpenAt, Open
<1>4. CallFits(call[c]) /\ CallBelongs(call[c], granted)
    BY <1>1, <1>2, <1>3 DEF CalmAt, CallsBelong
<1>5. call[c].tab # None /\ BrowserOf[call[c].tab] = call[c].by
    BY <1>4 DEF CallFits, CallBelongs
<1>6. \A k : ~ InAnswer(k, call[c].by)
    BY <1>2, <1>3 DEF InAnswer, CalmAt
<1> QED BY <1>2, <1>3, <1>4, <1>5, <1>6 DEF CalmAt, Reachable

\* After the server's part a browser is as it should be when the call fits the new state
\* and the live sessions are the cookie's or the answer's.
LEMMA ServedFits ==
    ASSUME IInv, NEW c \in DOMAIN call, NEW b \in Browsers, call[c].by = b,
           call[c].pc \in {"asked", "read"},
           \A e \in Browsers : CalmAt(e), UNCHANGED <<tab, cookie, expired>>,
           NEW pc \in {"read", "answered"}, NEW got \in Nat, Served(c, pc, got),
           call[c].req = "me" => got \in {0, call[c].key},
           call[c].req \in {"refresh", "logout"} /\ pc = "read" => call[c].key = cookie[b],
           call[c].req = "refresh" /\ pc = "read" => call[c].key \notin revoked',
           call[c].req # "me" /\ pc = "answered" => ~ Live(cookie[b])',
           revoked \subseteq revoked', RowsOK',
           Sessions \subseteq Sessions', \A k \in Sessions : granted'[k] = granted[k],
           \A k \in Sessions' : Live(k)' /\ granted'[k].agent = b =>
               \/ cookie[b] = k
               \/ k = got /\ call[c].req \in {"login", "refresh"} /\ pc = "answered"
    PROVE  CalmAt(b)'
<1>1. RowsOK /\ BrowsersOK /\ CallsOK /\ CallsBelong
    BY IInvParts
<1>2. /\ CallFits(call[c]) /\ call[c].tab # None /\ c \in OpenAt(b)
      /\ CallBelongs(call[c], granted)
    BY ServedCalm
<1>3. /\ \A e : OpenAt(e)' = OpenAt(e)
      /\ Kept(c) /\ call'[c].tab = call[c].tab /\ call'[c].pc = pc /\ call'[c].got = got
    BY <1>1, <1>2, ServedOpen
<1>5. OpenAt(b)' = {c}
    BY <1>2, <1>3 DEF CalmAt
<1>6. CallFits(call[c])'
    BY <1>2, <1>3 DEF CallFits, Kept, Live
<1>7. TabsAt(b)'
    BY DEF CalmAt, TabsAt
<1>8. ASSUME NEW t \in Tabs, BrowserOf[t] = b PROVE PageFits(t)'
  <2>1. PageFits(t) /\ tab[t].token \in {0} \cup Sessions
      BY <1>1, <1>8 DEF CalmAt, BrowsersOK
  <2>2. PICK k \in {0} \cup Sessions : k = cookie[b]
      BY <1>1 DEF BrowsersOK
  <2>3. ~ Live(k) => ~ Live(k)'
      BY <1>1, StaysDead
  <2>4. UserOf(tab[t].token)' = UserOf(tab[t].token) \/ tab[t].token = 0
      BY <2>1 DEF UserOf
  <2>5. UserOf(cookie[b])' = UserOf(cookie[b]) \/ cookie[b] = 0
      BY <2>2 DEF UserOf
  <2> QED BY <1>8, <2>1, <2>2, <2>3, <2>4, <2>5 DEF PageFits, Live
<1>9. Reachable(b)'
  <2> SUFFICES ASSUME NEW k \in Sessions', Live(k)', granted'[k].agent = b
               PROVE  cookie'[b] = k \/ InAnswer(k, b)'
      BY DEF Reachable
  <2>1. \/ cookie[b] = k
        \/ k = got /\ call[c].req \in {"login", "refresh"} /\ pc = "answered"
      OBVIOUS
  <2> QED BY <1>3, <1>5, <2>1 DEF InAnswer, Kept
<1> QED BY <1>5, <1>6, <1>7, <1>8, <1>9 DEF CalmAt

\* The server's part stays within the browser that asked.
LEMMA ServedWithin ==
    ASSUME IInv, NEW c \in DOMAIN call, NEW b \in Browsers, call[c].by = b,
           call[c].pc \in {"asked", "read"},
           \A e \in Browsers : CalmAt(e), UNCHANGED <<tab, cookie, expired>>,
           NEW pc \in {"read", "answered"}, NEW got \in Nat, Served(c, pc, got),
           revoked \subseteq revoked', Sessions \subseteq Sessions',
           \A k \in Sessions : granted'[k] = granted[k],
           \A k \in Sessions' \ Sessions : granted'[k].agent = b,
           \A k \in Sessions : k \in revoked' \ revoked => granted[k].agent = b
    PROVE  Within(b)
<1>1. CallsOK
    BY IInvParts
<1>2. /\ \A e : OpenAt(e)' = OpenAt(e)
      /\ \A d \in DOMAIN call : d # c => call'[d] = call[d]
    BY <1>1, ServedCalm, ServedOpen
<1>3. \A e \in Browsers : e # b => \A d \in OpenAt(e) : call'[d] = call[d]
    BY <1>2 DEF OpenAt
<1> QED BY <1>2, <1>3 DEF Within

\* A call is made by a browser.
LEMMA CallFrom == ASSUME IInv, NEW c \in DOMAIN call PROVE call[c].by \in Browsers
<1>1. call[c] \in Call
    BY IInvParts DEF CallsOK
<1> QED BY <1>1 DEF Call

\* CheckMe and ReadSession change nothing but their call.
LEMMA LookCalm ==
    ASSUME IInv, IInv', CalmInv, NEW c \in DOMAIN call, CheckMe(c) \/ ReadSession(c)
    PROVE  CalmInv'
<1>1. calm' = calm /\ UNCHANGED <<granted, revoked, expired, cookie, tab>>
    BY DEF CheckMe, ReadSession, rows
<1>2. calm => OneSuccessor'
    BY <1>1, NoNewSuccessor DEF CalmInv
<1>0. PICK b \in Browsers : b = call[c].by
    BY CallFrom
<1> SUFFICES ASSUME calm PROVE Within(b) /\ CalmAt(b)'
    BY <1>1, <1>2, WithinCalm
<1>3. /\ \A e \in Browsers : CalmAt(e)
      /\ call[c].pc \in {"asked", "read"} /\ Sessions' = Sessions /\ \A k : Live(k)' <=> Live(k)
    BY <1>1 DEF CalmInv, CheckMe, ReadSession, Sessions, Live
<1>4. /\ call[c] \in Call /\ CallFits(call[c])
      /\ CallBelongs(call[c], granted)
      /\ \A k \in Sessions : Live(k) /\ granted[k].agent = b => cookie[b] = k
    BY <1>0, <1>3, ServedCalm
<1>5. PICK pc \in {"read", "answered"}, got \in Nat :
         /\ Served(c, pc, got)
         /\ call[c].req = "me" => got \in {0, call[c].key}
         /\ call[c].req \in {"refresh", "logout"} /\ pc = "read" =>
               call[c].key = cookie[b] /\ call[c].key \notin revoked
         /\ call[c].req # "me" /\ pc = "answered" => ~ Live(cookie[b])
  <2>1. call[c].key \in Nat
      BY <1>4 DEF Call
  <2>2. CASE CheckMe(c)
      BY <2>1, <2>2 DEF CheckMe
  <2>3. CASE ReadSession(c)
    <3>1. call[c].key = cookie[b] /\ call[c].req = "refresh"
        BY <1>0, <1>4, <2>3 DEF CallFits, ReadSession
    <3>2. CASE Live(call[c].key)
      <4>1. Served(c, "read", 0) /\ call[c].key \notin revoked
          BY <2>3, <3>2 DEF ReadSession, Live
      <4> QED BY <3>1, <4>1
    <3>3. CASE ~ Live(call[c].key)
      <4>1. Served(c, "answered", 0)
          BY <2>3, <3>3 DEF ReadSession
      <4> QED BY <3>1, <3>3, <4>1
    <3> QED BY <3>2, <3>3
  <2> QED BY <2>2, <2>3
<1>6. ~ Live(cookie[b]) => ~ Live(cookie[b])'
    BY <1>1, <1>3, <1>4 DEF Live
<1>7. \A k \in Sessions' : Live(k)' /\ granted'[k].agent = b => cookie[b] = k
    BY <1>1, <1>3, <1>4
<1>8. /\ revoked \subseteq revoked' /\ revoked' = revoked /\ RowsOK'
      /\ Sessions \subseteq Sessions' /\ \A k \in Sessions : granted'[k] = granted[k]
    BY <1>1, <1>3, IInvPartsNext
<1>9. CalmAt(b)'
    BY SMTT(30), <1>1, <1>3, <1>5, <1>6, <1>7, <1>8, <1>0, ServedFits
<1>10. Within(b)
    BY <1>1, <1>3, <1>5, <1>8, <1>0, ServedWithin
<1> QED BY <1>4, <1>9, <1>10

\* LogOut ends the cookie's session, which is the only one.
LEMMA LogOutCalm ==
    ASSUME IInv, IInv', CalmInv, NEW c \in DOMAIN call, LogOut(c)
    PROVE  CalmInv'
<1>1. /\ calm' = calm /\ UNCHANGED <<granted, expired, cookie, tab>>
      /\ revoked' = revoked \cup Ended(call[c].key)
      /\ Served(c, "answered", 0) /\ call[c].req = "logout" /\ call[c].pc = "asked"
    BY DEF LogOut
<1>2. calm => OneSuccessor'
    BY <1>1, NoNewSuccessor DEF CalmInv
<1>0. PICK b \in Browsers : b = call[c].by
    BY CallFrom
<1> SUFFICES ASSUME calm PROVE Within(b) /\ CalmAt(b)'
    BY <1>1, <1>2, WithinCalm
<1>3. /\ \A e \in Browsers : CalmAt(e)
      /\ call[c].pc \in {"asked", "read"} /\ Sessions' = Sessions
    BY <1>1 DEF CalmInv, Sessions
<1>4. /\ CallFits(call[c])
      /\ CallBelongs(call[c], granted)
      /\ \A k \in Sessions : Live(k) /\ granted[k].agent = b => cookie[b] = k
    BY <1>0, <1>3, ServedCalm
<1>5. call[c].key = cookie[b]
    BY <1>0, <1>1, <1>4 DEF CallFits
<1>6. ~ Live(cookie[b])'
    BY <1>1, <1>3, <1>5 DEF Live, Ended
<1>7. /\ revoked \subseteq revoked' /\ RowsOK'
      /\ Sessions \subseteq Sessions' /\ \A k \in Sessions : granted'[k] = granted[k]
    BY <1>1, <1>3, IInvPartsNext
<1>8. \A k \in Sessions' : Live(k)' /\ granted'[k].agent = b => cookie[b] = k
    BY <1>1, <1>3, <1>4, <1>7 DEF Live
<1>9. \A k \in Sessions : k \in revoked' \ revoked => granted[k].agent = b
    BY <1>0, <1>1, <1>4, IInvParts, SessionsType DEF Ended, CallBelongs
<1>10. 0 \in Nat
    OBVIOUS
<1>11. CalmAt(b)'
    BY <1>1, <1>3, <1>6, <1>7, <1>8, <1>10, <1>0, ServedFits
<1>12. Within(b)
    BY <1>1, <1>3, <1>7, <1>9, <1>10, <1>0, ServedWithin
<1> QED BY <1>4, <1>11, <1>12

\* Rotate ends the cookie's session and makes the one in the answer, the first to replace
\* it: had there been another, the cookie's session would be revoked by now.
LEMMA RotateCalm ==
    ASSUME IInv, IInv', CalmInv, NEW c \in DOMAIN call, Rotate(c)
    PROVE  CalmInv'
<1> DEFINE n == Len(granted) + 1
           p == call[c].key
<1>0. PICK b \in Browsers : b = call[c].by
    BY CallFrom
<1>1. /\ RowsOK /\ BrowsersOK /\ CallsOK /\ CallsBelong /\ LineageOK /\ RowsOK'
    BY IInvParts, IInvPartsNext
<1>2. /\ granted' = Append(granted, NewSession(UserOf(p), b, p))
      /\ Served(c, "answered", n) /\ revoked' = revoked \cup {p}
      /\ UNCHANGED <<expired, lapsed, cookie, tab, calm>>
      /\ call[c].req = "refresh" /\ call[c].pc = "read"
    BY <1>0 DEF Rotate, Issue
<1>3. CallBelongs(call[c], granted) /\ call[c] \in Call
    BY <1>1 DEF CallsBelong, CallsOK
<1>4. p \in Sessions /\ p \in Nat /\ granted[p].agent = b /\ UserOf(p) \in Users
    BY <1>0, <1>1, <1>2, <1>3, SessionsType DEF CallBelongs, Sessions, UserOf, Session
<1>5. /\ Grows /\ n \in Nat /\ n \notin Sessions /\ Sessions' = Sessions \cup {n}
      /\ granted'[n].agent = b /\ granted'[n].parent = p
  <2>1. revoked \subseteq revoked' /\ revoked' \subseteq Sessions
      BY <1>1, <1>2, <1>4 DEF RowsOK
  <2> HIDE DEF p
  <2> QED BY <1>1, <1>2, <1>4, <2>1, <1>0, IssueGrows
<1> HIDE DEF n
<1> SUFFICES ASSUME calm PROVE Within(b) /\ CalmAt(b)' /\ OneSuccessor'
    BY <1>2, WithinCalm
<1>6. /\ OneSuccessor /\ \A e \in Browsers : CalmAt(e)
      /\ call[c].pc \in {"asked", "read"}
    BY <1>2 DEF CalmInv
<1>7. /\ CallFits(call[c]) 
      /\ \A k \in Sessions : Live(k) /\ granted[k].agent = b => cookie[b] = k
    BY <1>6, <1>0, ServedCalm
<1>8. p = cookie[b] /\ p \notin revoked
    BY <1>0, <1>2, <1>7 DEF CallFits
<1>9. ~ Live(cookie[b])'
    BY <1>2, <1>8 DEF Live
<1>10. /\ revoked \subseteq revoked' /\ Sessions \subseteq Sessions'
       /\ \A k \in Sessions : granted'[k] = granted[k]
    BY <1>5 DEF Grows
<1>11. \A k \in Sessions' : Live(k)' /\ granted'[k].agent = b => cookie[b] = k \/ k = n
    BY <1>2, <1>5, <1>7, <1>10 DEF Live
<1>12. OneSuccessor'
  <2>1. \A j \in Sessions : granted[j].parent # p
      BY <1>4, <1>8, <1>1, SessionsType DEF LineageOK
  <2>2. \A j \in Sessions : granted'[j].parent = granted[j].parent
      BY <1>10
  <2> QED BY <1>5, <1>6, <2>1, <2>2 DEF OneSuccessor
<1>13. CalmAt(b)'
  <2>1. UNCHANGED <<tab, cookie, expired>> /\ Served(c, "answered", n) /\ n \in Nat
      BY <1>2, <1>5
  <2>2. \A k \in Sessions' : Live(k)' /\ granted'[k].agent = b =>
           \/ cookie[b] = k
           \/ k = n /\ call[c].req \in {"login", "refresh"} /\ "answered" = "answered"
      BY <1>2, <1>11
  <2>3. call[c].req = "refresh"
      BY <1>2
  <2> HIDE DEF p
  <2> QED BY <1>0, <1>1, <1>6, <1>9, <1>10, <2>1, <2>2, <2>3, ServedFits
<1>14. Within(b)
    BY <1>2, <1>4, <1>5, <1>6, <1>10, <1>0, ServedWithin
<1> QED BY <1>7, <1>12, <1>13, <1>14

\* LogIn makes a session next to none: at the login form the cookie's is dead.
LEMMA LogInCalm ==
    ASSUME IInv, IInv', CalmInv, NEW c \in DOMAIN call, LogIn(c)
    PROVE  CalmInv'
<1>0. PICK b \in Browsers : b = call[c].by
    BY CallFrom
<1>1. /\ RowsOK /\ BrowsersOK /\ CallsOK /\ CallsBelong /\ LineageOK /\ RowsOK'
    BY IInvParts, IInvPartsNext
<1>2. /\ UNCHANGED <<revoked, expired, lapsed, cookie, tab, calm>>
      /\ call[c].req = "login" /\ call[c].pc = "asked"
    BY DEF LogIn
<1>3. call[c].who \in Users \cup {None}
  <2>1. call[c] \in Call
      BY <1>1 DEF CallsOK
  <2> QED BY <2>1 DEF Call
<1>4. PICK n \in Nat :
         /\ Served(c, "answered", n)
         /\ Sessions \subseteq Sessions' /\ Sessions' \subseteq Sessions \cup {n}
         /\ \A k \in Sessions : granted'[k] = granted[k]
         /\ \A k \in Sessions' \ Sessions : granted'[k].agent = b /\ granted'[k].parent = 0
         /\ n \notin Sessions
  <2>1. CASE call[c].who = None
    <3>1. UNCHANGED granted /\ Served(c, "answered", 0) /\ 0 \in Nat /\ 0 \notin Sessions
        BY <1>1, <2>1, SessionsType DEF LogIn
    <3> QED BY <3>1 DEF Sessions
  <2>2. CASE call[c].who # None
    <3> DEFINE n == Len(granted) + 1
    <3>1. /\ granted' = Append(granted, NewSession(call[c].who, b, 0))
          /\ Served(c, "answered", n) /\ call[c].who \in Users
        BY <1>0, <1>3, <2>2 DEF LogIn, Issue
    <3>2. /\ Grows /\ n \in Nat /\ n \notin Sessions /\ Sessions' = Sessions \cup {n}
          /\ granted'[n].agent = b /\ granted'[n].parent = 0
        BY <1>0, <1>1, <1>2, <3>1, IssueGrows DEF RowsOK
    <3> HIDE DEF n
    <3> QED BY <3>1, <3>2 DEF Grows
  <2> QED BY <2>1, <2>2
<1> SUFFICES ASSUME calm PROVE Within(b) /\ CalmAt(b)' /\ OneSuccessor'
    BY <1>2, WithinCalm
<1>5. /\ OneSuccessor /\ \A e \in Browsers : CalmAt(e)
      /\ call[c].pc \in {"asked", "read"}
    BY <1>2 DEF CalmInv
<1>6. /\ CallFits(call[c]) /\ BrowserOf[call[c].tab] = b
      /\ \A k \in Sessions : Live(k) /\ granted[k].agent = b => cookie[b] = k
    BY <1>5, <1>0, ServedCalm
<1>7. ~ Live(cookie[b])
    BY <1>2, <1>5, <1>6 DEF CallFits, CalmAt, PageFits
<1>8. ~ Live(cookie[b])'
  <2>1. PICK k \in {0} \cup Sessions : k = cookie[b]
      BY <1>1, <1>6 DEF BrowsersOK
  <2>2. revoked \subseteq revoked' /\ expired \subseteq expired'
      BY <1>2
  <2>3. ~ Live(k)'
      BY <1>1, <1>7, <2>1, <2>2, StaysDead
  <2> QED BY <1>2, <2>1, <2>3 DEF Live
<1>9. \A k \in Sessions' : Live(k)' /\ granted'[k].agent = b => cookie[b] = k \/ k = n
    BY <1>2, <1>4, <1>6 DEF Live
<1>10. OneSuccessor'
  <2>1. \A j \in Sessions' : granted'[j].parent # 0 => j \in Sessions
      BY <1>4
  <2> QED BY <1>4, <1>5, <2>1 DEF OneSuccessor
<1>11. revoked \subseteq revoked' /\ revoked' = revoked
    BY <1>2
<1>12. CalmAt(b)'
    BY <1>1, <1>2, <1>4, <1>5, <1>8, <1>9, <1>11, <1>0, ServedFits
<1>13. Within(b)
    BY <1>2, <1>4, <1>5, <1>11, <1>0, ServedWithin
<1> QED BY <1>6, <1>10, <1>12, <1>13

\* In a browser that waits for nothing no call is open, and its session is the cookie's.
LEMMA IdleCalm ==
    ASSUME NEW b \in Browsers, Idle(b), CalmAt(b)
    PROVE  /\ OpenAt(b) = {}
           /\ \A k \in Sessions : Live(k) /\ granted[k].agent = b => cookie[b] = k
<1>1. OpenAt(b) = {}
    BY DEF OpenAt, Open, Idle, InFlight
<1> QED BY <1>1 DEF CalmAt, Reachable, InAnswer

\* A step of a page leaves a browser as it should be when at most one call n is open
\* afterwards, which fits, and the live sessions are the cookie's.
LEMMA PageFitsAfter ==
    ASSUME NEW b, NEW n, UNCHANGED rows, OpenAt(b)' \subseteq {n},
           n \in OpenAt(b)' => CallFits(call[n])', TabsAt(b)',
           \A t \in Tabs : BrowserOf[t] = b => PageFits(t)',
           \A k \in Sessions : Live(k) /\ granted[k].agent = b => cookie'[b] = k
    PROVE  CalmAt(b)'
<1>1. UNCHANGED <<granted, revoked, expired, lapsed>>
    BY DEF rows
<1>2. Reachable(b)'
    BY <1>1 DEF Reachable, Live, Sessions
<1>3. \A c \in OpenAt(b)' : CallFits(call[c])'
  <2>1. \A c \in OpenAt(b)' : c = n
      OBVIOUS
  <2> QED BY <2>1
<1> QED BY <1>2, <1>3 DEF CalmAt

\* The rows are left alone, and so are the other browsers.
LEMMA PageWithin ==
    ASSUME NEW b \in Browsers, UNCHANGED rows,
           \A e \in Browsers : e # b =>
              OpenAt(e)' = OpenAt(e) /\ \A c \in OpenAt(e) : call'[c] = call[c],
           \A e \in Browsers : e # b => cookie'[e] = cookie[e],
           \A t \in Tabs : BrowserOf[t] # b => tab'[t] = tab[t]
    PROVE  Within(b)
<1>1. UNCHANGED <<granted, revoked, expired, lapsed>> /\ Sessions' = Sessions
    BY DEF rows, Sessions
<1> QED BY <1>1 DEF Within

\* A page that is opened asks with the token it kept, or with the cookie.
LEMMA BootstrapFits ==
    ASSUME NEW t \in Tabs, NEW token, NEW p, p.shows = "loading", p.token = token,
           tab'[t] = p, cookie' = cookie, NEW r, r = Bootstrap(t, token)
    PROVE  CallFits(r)' /\ r.by = BrowserOf[t] /\ r.pc = "asked"
<1>1. CASE token # 0
  <2>1. r = Ask("me", t, token, None)
      BY <1>1 DEF Bootstrap
  <2>2. /\ r.req = "me" /\ r.by = BrowserOf[t] /\ r.tab = t /\ r.key = token
        /\ r.pc = "asked" /\ r.got = 0
      BY <2>1 DEF Ask
  <2> QED BY <2>2 DEF CallFits
<1>2. CASE token = 0
  <2>1. r = Ask("refresh", t, cookie[BrowserOf[t]], None)
      BY <1>2 DEF Bootstrap
  <2>2. /\ r.req = "refresh" /\ r.by = BrowserOf[t] /\ r.tab = t
        /\ r.key = cookie[BrowserOf[t]] /\ r.pc = "asked" /\ r.got = 0
      BY <2>1 DEF Ask
  <2> QED BY <2>2 DEF CallFits
<1> QED BY <1>1, <1>2

LEMMA OpenPageCalm ==
    ASSUME IInv, IInv', CalmInv, NEW t \in Tabs, OpenPage(t)
    PROVE  CalmInv'
<1>1. PICK token \in {tab[t].token, 0} :
         /\ tab' = [tab EXCEPT ![t] = NewPage("loading", token, None)]
         /\ call' = Append(Abandoned(t), Bootstrap(t, token))
    BY DEF OpenPage, StartedCalls
<1>2. /\ UNCHANGED <<rows, cookie, calm>> /\ UNCHANGED granted /\ MayAct(t)
      /\ BrowsersOK /\ CallsOK /\ CallsBelong
    BY IInvParts DEF OpenPage, rows
<1>3. PICK b \in Browsers : b = BrowserOf[t]
    OBVIOUS
<1>4. calm => OneSuccessor'
    BY <1>2, NoNewSuccessor DEF CalmInv
<1> SUFFICES ASSUME calm PROVE Within(b) /\ CalmAt(b)'
    BY <1>2, <1>4, WithinCalm
<1>5. CalmAt(b) /\ Idle(b) /\ OnlyTab(t)
    BY <1>2, <1>3 DEF CalmInv, MayAct
<1>6. /\ OpenAt(b) = {}
      /\ \A k \in Sessions : Live(k) /\ granted[k].agent = b => cookie[b] = k
    BY <1>5, IdleCalm
<1> DEFINE f == Abandoned(t)
<1>7. PICK r : r = Bootstrap(t, token)
    OBVIOUS
<1>8. PICK p : p = NewPage("loading", token, None)
    OBVIOUS
<1>9. p.shows = "loading" /\ p.token = token
    BY <1>8 DEF NewPage
<1>10. tab'[t] = p /\ \A u \in Tabs : u # t => tab'[u] = tab[u]
    BY <1>1, <1>2, <1>8 DEF BrowsersOK
<1>11. CallFits(r)' /\ r.by = b /\ r.pc = "asked"
    BY <1>2, <1>3, <1>7, <1>9, <1>10, BootstrapFits
<1>12. /\ f \in Seq(Call) /\ DOMAIN f = DOMAIN call
       /\ \A d \in DOMAIN call : f[d].by = call[d].by /\ f[d].pc = call[d].pc
                                 /\ f[d].tab = IF call[d].tab = t THEN None ELSE call[d].tab
    BY <1>2, AbandonedCalls
<1>13. \A d \in DOMAIN call : call[d].tab # t => f[d] = call[d]
    BY DEF Abandoned
<1> HIDE DEF f
<1>13a. PICK n : n = Len(f) + 1
    OBVIOUS
<1>14. /\ DOMAIN call' = DOMAIN call \cup {n} /\ n \notin DOMAIN call
       /\ \A d \in DOMAIN call : call'[d] = f[d]
       /\ call'[n] = r
    BY <1>1, <1>7, <1>12, <1>13a DEF f
<1>15. \A d \in DOMAIN call : call[d].tab = t => call[d].by = b
    BY <1>2, <1>3 DEF CallsBelong, CallBelongs
<1>16. \A e : e # b => OpenAt(e)' = OpenAt(e) /\ \A d \in OpenAt(e) : call'[d] = call[d]
  <2> SUFFICES ASSUME NEW e, e # b
               PROVE  OpenAt(e)' = OpenAt(e) /\ \A d \in OpenAt(e) : call'[d] = call[d]
      OBVIOUS
  <2>1. \A d \in DOMAIN call : call[d].by = e => call'[d] = call[d]
      BY <1>13, <1>14, <1>15
  <2>2. \A d \in DOMAIN call : call'[d].by = call[d].by
      BY <1>12, <1>14
  <2>3. call'[n].by # e
      BY <1>11, <1>14
  <2> QED BY <1>14, <2>1, <2>2, <2>3 DEF OpenAt
<1>17. OpenAt(b)' \subseteq {n}
  <2>1. \A d \in DOMAIN call : call'[d].by = b => ~ Open(call'[d])
      BY <1>6, <1>12, <1>14 DEF OpenAt, Open
  <2> QED BY <1>14, <2>1 DEF OpenAt
<1>18. CallFits(call[n])'
    BY <1>11, <1>14 DEF CallFits, Live
<1>19. TabsAt(b)'
    BY <1>3, <1>5, <1>9, <1>10 DEF CalmAt, TabsAt, OnlyTab
<1>20. ASSUME NEW u \in Tabs, BrowserOf[u] = b PROVE PageFits(u)'
  <2>1. PageFits(u)
      BY <1>5, <1>20 DEF CalmAt
  <2>2. CASE u = t
      BY <1>2, <1>3, <1>9, <1>10, <2>1, <2>2 DEF PageFits, UserOf
  <2>3. CASE u # t
      BY <1>2, <1>10, <2>1, <2>3 DEF PageFits, UserOf, Live, Sessions, rows
  <2> QED BY <2>2, <2>3
<1>21. CalmAt(b)'
    BY <1>2, <1>6, <1>17, <1>18, <1>19, <1>20, PageFitsAfter
<1>22. Within(b)
    BY <1>2, <1>3, <1>10, <1>16, PageWithin
<1> QED BY <1>21, <1>22

\* A login or a logout that is sent is the only call of its browser.
LEMMA SubmitCalm ==
    ASSUME IInv, IInv', CalmInv, NEW t \in Tabs, SubmitLogin(t) \/ ClickLogout(t)
    PROVE  CalmInv'
<1>1. PICK req \in {"login", "logout"}, key \in {0, cookie[BrowserOf[t]]} :
         /\ \E who : call' = Append(call, Ask(req, t, key, who))
         /\ req = "login" => tab[t].shows = "out"
         /\ req = "logout" => key = cookie[BrowserOf[t]]
    BY DEF SubmitLogin, ClickLogout, LoginShown
<1>2. /\ UNCHANGED <<rows, cookie, tab, calm>> /\ UNCHANGED granted /\ MayAct(t)
      /\ BrowsersOK /\ CallsOK /\ tab[t].shows # "nothing"
    BY IInvParts DEF SubmitLogin, ClickLogout, LoginShown, rows
<1>3. PICK b \in Browsers : b = BrowserOf[t]
    OBVIOUS
<1>4. calm => OneSuccessor'
    BY <1>2, NoNewSuccessor DEF CalmInv
<1> SUFFICES ASSUME calm PROVE Within(b) /\ CalmAt(b)'
    BY <1>2, <1>4, WithinCalm
<1>5. CalmAt(b) /\ Idle(b)
    BY <1>2, <1>3 DEF CalmInv, MayAct
<1>6. /\ OpenAt(b) = {}
      /\ \A k \in Sessions : Live(k) /\ granted[k].agent = b => cookie[b] = k
    BY <1>5, IdleCalm
<1>7. PICK who : call' = Append(call, Ask(req, t, key, who))
    BY <1>1
<1>8. PICK r : r = Ask(req, t, key, who)
    OBVIOUS
<1>9. /\ r.req = req /\ r.by = b /\ r.tab = t /\ r.key = key
      /\ r.pc = "asked" /\ r.got = 0
    BY <1>3, <1>8 DEF Ask
<1>9a. PICK n : n = Len(call) + 1
    OBVIOUS
<1>10. /\ DOMAIN call' = DOMAIN call \cup {n} /\ n \notin DOMAIN call
       /\ \A d \in DOMAIN call : call'[d] = call[d]
       /\ call'[n] = r
    BY <1>2, <1>7, <1>8, <1>9a DEF CallsOK
<1>11. \A e : e # b => OpenAt(e)' = OpenAt(e) /\ \A d \in OpenAt(e) : call'[d] = call[d]
    BY <1>9, <1>10 DEF OpenAt
<1>12. OpenAt(b)' \subseteq {n}
    BY <1>6, <1>10 DEF OpenAt
<1>13. CallFits(call[n])'
    BY <1>1, <1>2, <1>3, <1>9, <1>10 DEF CallFits
<1>14. TabsAt(b)'
    BY <1>2, <1>5 DEF CalmAt, TabsAt
<1>15. \A u \in Tabs : BrowserOf[u] = b => PageFits(u)'
    BY <1>2, <1>5 DEF CalmAt, PageFits, UserOf, Live, Sessions, rows
<1>16. CalmAt(b)'
    BY <1>2, <1>6, <1>12, <1>13, <1>14, <1>15, PageFitsAfter
<1>17. Within(b)
    BY <1>2, <1>11, PageWithin
<1> QED BY <1>16, <1>17

\* What a page and its cookie become with the answer: the user of the page is the
\* cookie's, a login form has a dead cookie, and the live session is in the cookie.
LEMMA AnswerFits ==
    ASSUME IInv, NEW c \in DOMAIN call, NEW b \in Browsers, call[c].by = b, call[c].pc = "answered",
           CalmAt(b), c \in OpenAt(b), NEW t \in Tabs, call[c].tab = t, BrowserOf[t] = b,
           NEW p, p = PageAfter(call[c].req, t, call[c].got), NEW ck, ck = CookieAfter(c)
    PROVE  /\ p.shows # "nothing"
           /\ p.token # 0 /\ ck # 0 => UserOf(p.token) = UserOf(ck)
           /\ p.shows = "out" => ~ Live(ck)
           /\ \A k \in Sessions : Live(k) /\ granted[k].agent = b => ck = k
           /\ call[c].req = "me" => ck = cookie[b]
           /\ call[c].req = "me" /\ call[c].got = 0 => p = NewPage("loading", 0, None)
<1>1. /\ RowsOK /\ BrowsersOK /\ CallsOK /\ CallsBelong
    BY IInvParts
<1>2. call[c] \in Call /\ CallBelongs(call[c], granted) /\ CallFits(call[c]) /\ PageFits(t)
    BY <1>1 DEF CallsOK, CallsBelong, CalmAt
<1>3. \A k \in Sessions : Live(k) /\ granted[k].agent = b =>
         \/ cookie[b] = k
         \/ k = call[c].got /\ call[c].req \in {"login", "refresh"}
  <2>1. \A d \in OpenAt(b) : d = c
      BY DEF CalmAt
  <2> QED BY <2>1 DEF CalmAt, Reachable, InAnswer
<1>4. 0 \notin Sessions /\ ~ Live(0)
    BY <1>1, SessionsType DEF Live
<1>5. tab[t].shows # "nothing" /\ tab[t].token \in {0} \cup Sessions
    BY <1>1, <1>2 DEF CallFits, BrowsersOK
<1>6. call[c].req \in {"me", "refresh", "login", "logout"}
    BY <1>2 DEF Call
<1>7. CASE call[c].req = "me"
  <2>1. ck = cookie[b]
      BY <1>7 DEF CookieAfter
  <2>2. CASE call[c].got # 0
    <3>1. p = NewPage("in", call[c].got, UserOf(call[c].got)) /\ call[c].got = tab[t].token
        BY <1>2, <1>7, <2>2 DEF PageAfter, SignedIn, CallFits
    <3>2. p.shows = "in" /\ p.token = tab[t].token
        BY <3>1 DEF NewPage
    <3> QED BY <1>2, <1>3, <1>7, <2>1, <2>2, <3>2 DEF PageFits
  <2>3. CASE call[c].got = 0
    <3>1. p = NewPage("loading", 0, None)
        BY <1>7, <2>3 DEF PageAfter
    <3>2. p.shows = "loading" /\ p.token = 0
        BY <3>1 DEF NewPage
    <3> QED BY <1>3, <1>7, <2>1, <3>1, <3>2
  <2> QED BY <2>2, <2>3
<1>8. CASE call[c].req # "me"
  <2>1. ~ Live(cookie[b])
      BY <1>2, <1>8 DEF CallFits
  <2>2. CASE call[c].req = "logout"
    <3>1. ck = 0 /\ p = NewPage("out", 0, None)
        BY <2>2 DEF CookieAfter, PageAfter, SignedOut
    <3>2. p.shows = "out" /\ p.token = 0
        BY <3>1 DEF NewPage
    <3> QED BY <1>3, <1>4, <1>8, <2>1, <2>2, <3>1, <3>2
  <2>3. CASE call[c].req \in {"login", "refresh"} /\ call[c].got # 0
    <3>1. ck = call[c].got /\ p = NewPage("in", call[c].got, UserOf(call[c].got))
        BY <2>3 DEF CookieAfter, PageAfter, SignedIn
    <3>2. p.shows = "in" /\ p.token = ck
        BY <3>1 DEF NewPage
    <3> QED BY <1>3, <1>8, <2>1, <3>1, <3>2
  <2>4. CASE call[c].req \in {"login", "refresh"} /\ call[c].got = 0
    <3>1. ck = cookie[b]
        BY <2>4 DEF CookieAfter
    <3>2. CASE call[c].req = "refresh"
      <4>1. p = NewPage("out", 0, None)
          BY <2>4, <3>2 DEF PageAfter, Refused, SignedOut
      <4>2. p.shows = "out" /\ p.token = 0
          BY <4>1 DEF NewPage
      <4> QED BY <1>3, <1>4, <1>8, <2>1, <2>4, <3>1, <4>2
    <3>3. CASE call[c].req = "login"
      <4>1. p = tab[t]
          BY <2>4, <3>3 DEF PageAfter
      <4> QED BY <1>2, <1>3, <1>4, <1>5, <1>8, <2>1, <2>4, <3>1, <4>1 DEF PageFits
    <3> QED BY <2>4, <3>2, <3>3
  <2> QED BY <1>6, <1>8, <2>2, <2>3, <2>4
<1> QED BY <1>7, <1>8

\* An answer that arrives closes the only open call, or opens the refresh that follows a
\* refused token.
LEMMA ArriveCalm ==
    ASSUME IInv, IInv', CalmInv, NEW c \in DOMAIN call, Arrive(c)
    PROVE  CalmInv'
<1>1. /\ BrowsersOK /\ CallsOK /\ CallsBelong
      /\ UNCHANGED <<rows, calm>> /\ UNCHANGED granted /\ InFlight(c) /\ call[c].pc = "answered"
      /\ cookie' = [cookie EXCEPT ![call[c].by] = CookieAfter(c)]
    BY IInvParts DEF Arrive, rows
<1>2. calm => OneSuccessor'
    BY <1>1, NoNewSuccessor DEF CalmInv
<1>3. PICK b \in Browsers : b = call[c].by
    BY CallFrom
<1>4. PICK t \in Tabs : t = call[c].tab /\ BrowserOf[t] = b
  <2>1. call[c] \in Call
      BY <1>1 DEF CallsOK
  <2> QED BY <1>1, <1>3, <2>1 DEF CallsBelong, CallBelongs, InFlight, Call
<1> SUFFICES ASSUME calm PROVE Within(b) /\ CalmAt(b)'
    BY <1>1, <1>2, WithinCalm
<1>5. CalmAt(b) /\ c \in OpenAt(b)
    BY <1>1, <1>3 DEF CalmInv, OpenAt, Open, InFlight
<1>6. PICK p, ck : p = PageAfter(call[c].req, t, call[c].got) /\ ck = CookieAfter(c)
    OBVIOUS
<1>7. /\ p.shows # "nothing"
      /\ p.token # 0 /\ ck # 0 => UserOf(p.token) = UserOf(ck)
      /\ p.shows = "out" => ~ Live(ck)
      /\ \A k \in Sessions : Live(k) /\ granted[k].agent = b => ck = k
      /\ call[c].req = "me" => ck = cookie[b]
      /\ call[c].req = "me" /\ call[c].got = 0 => p = NewPage("loading", 0, None)
    BY <1>1, <1>3, <1>4, <1>5, <1>6, AnswerFits
<1>8. cookie'[b] = ck /\ \A e \in Browsers : e # b => cookie'[e] = cookie[e]
    BY <1>1, <1>3, <1>6 DEF BrowsersOK
<1> DEFINE f == Finished(c, "over")
<1>9. /\ tab' = [tab EXCEPT ![t] = p]
      /\ IF call[c].req = "me" /\ call[c].got = 0 THEN call' = Append(f, Bootstrap(t, 0))
                                                 ELSE call' = f
    BY <1>4, <1>6 DEF Arrive, Continue
<1>10. tab'[t] = p /\ \A u \in Tabs : u # t => tab'[u] = tab[u]
    BY <1>1, <1>9 DEF BrowsersOK
<1>11. /\ f \in Seq(Call) /\ DOMAIN f = DOMAIN call
       /\ \A d \in DOMAIN call : d # c => f[d] = call[d]
       /\ f[c].by = b /\ f[c].tab = None /\ f[c].pc = "over"
    BY <1>1, <1>3, FinishedCalls
<1> HIDE DEF f
<1>12. ~ Open(f[c])
    BY <1>11 DEF Open
<1>13. \A d \in DOMAIN call : f[d].by = b => ~ Open(f[d])
    BY <1>5, <1>11, <1>12 DEF CalmAt, OpenAt
<1>14. PICK n : n = Len(f) + 1
    OBVIOUS
<1>15. PICK r : r = Bootstrap(t, 0)
    OBVIOUS
<1>16. /\ DOMAIN call \subseteq DOMAIN call' /\ DOMAIN call' \subseteq DOMAIN call \cup {n}
       /\ \A d \in DOMAIN call : call'[d] = f[d]
       /\ n \in DOMAIN call' => n \notin DOMAIN call /\ call'[n] = r
                                /\ call[c].req = "me" /\ call[c].got = 0
  <2>1. CASE call' = f
      BY <1>11, <1>14, <2>1
  <2>2. CASE call' = Append(f, Bootstrap(t, 0)) /\ call[c].req = "me" /\ call[c].got = 0
      BY <1>11, <1>14, <1>15, <2>2
  <2> QED BY <1>9, <2>1, <2>2
<1>17. n \in DOMAIN call' => CallFits(call[n])' /\ call'[n].by = b
  <2> SUFFICES ASSUME n \in DOMAIN call' PROVE CallFits(call[n])' /\ call'[n].by = b
      OBVIOUS
  <2>1. call[c].req = "me" /\ call[c].got = 0 /\ call'[n] = r
      BY <1>16
  <2>2. p.shows = "loading" /\ p.token = 0 /\ cookie' = cookie
    <3>1. cookie'[b] = cookie[b]
        BY <1>7, <1>8, <2>1
    <3>2. cookie' = cookie
        BY <1>1, <1>3, <3>1 DEF BrowsersOK
    <3> QED BY <1>7, <2>1, <3>2 DEF NewPage
  <2>3. CallFits(r)' /\ r.by = b
    <3>1. PICK token : token = 0
        OBVIOUS
    <3> QED BY <1>4, <1>10, <1>15, <2>2, <3>1, BootstrapFits
  <2> QED BY <2>1, <2>3 DEF CallFits, Live
<1>18. \A e : e # b => OpenAt(e)' = OpenAt(e) /\ \A d \in OpenAt(e) : call'[d] = call[d]
  <2> SUFFICES ASSUME NEW e, e # b
               PROVE  OpenAt(e)' = OpenAt(e) /\ \A d \in OpenAt(e) : call'[d] = call[d]
      OBVIOUS
  <2>1. \A d \in DOMAIN call : call[d].by = e => call'[d] = call[d]
      BY <1>3, <1>11, <1>16
  <2>2. \A d \in DOMAIN call : call'[d].by = call[d].by
      BY <1>3, <1>11, <1>16
  <2> QED BY <1>16, <1>17, <2>1, <2>2 DEF OpenAt
<1>19. OpenAt(b)' \subseteq {n}
    BY <1>13, <1>16 DEF OpenAt
<1>20. n \in OpenAt(b)' => CallFits(call[n])'
    BY <1>17 DEF OpenAt
<1>21. tab[t].shows # "nothing" /\ \A u \in Tabs : BrowserOf[u] = b /\ u # t =>
          tab[u].shows = "nothing" /\ tab[u].token = 0
  <2>1. CallFits(call[c]) /\ TabsAt(b)
      BY <1>5 DEF CalmAt
  <2> QED BY <1>4, <2>1 DEF CallFits, TabsAt
<1>22. TabsAt(b)'
    BY <1>7, <1>10, <1>21 DEF TabsAt
<1>23. ASSUME NEW u \in Tabs, BrowserOf[u] = b PROVE PageFits(u)'
  <2>1. CASE u = t
      BY <1>1, <1>7, <1>8, <1>10, <1>23, <2>1 DEF PageFits, UserOf, Live, Sessions, rows
  <2>2. CASE u # t
      BY <1>10, <1>21, <1>23, <2>2 DEF PageFits
  <2> QED BY <2>1, <2>2
<1>24. CalmAt(b)'
    BY <1>1, <1>7, <1>8, <1>19, <1>20, <1>22, <1>23, PageFitsAfter
<1>25. \A u \in Tabs : BrowserOf[u] # b => tab'[u] = tab[u]
    BY <1>4, <1>10
<1>26. Within(b)
    BY <1>1, <1>8, <1>18, <1>25, PageWithin
<1> QED BY <1>24, <1>26

\* Time only ends sessions.
LEMMA TimeCalm ==
    ASSUME IInv, IInv', CalmInv, NEW s \in Sessions, Lapse(s) \/ Expire(s)
    PROVE  CalmInv'
<1>1. /\ UNCHANGED <<granted, revoked, cookie, tab, call, calm>> /\ expired \subseteq expired'
      /\ BrowsersOK /\ CallsOK /\ RowsOK /\ RowsOK'
    BY IInvParts, IInvPartsNext DEF Lapse, Expire
<1>2. calm => OneSuccessor'
    BY <1>1, NoNewSuccessor DEF CalmInv
<1> SUFFICES ASSUME calm, NEW b \in Browsers, CalmAt(b) PROVE CalmAt(b)'
    BY <1>1, <1>2 DEF CalmInv
<1>3. ~ Live(cookie[b]) => ~ Live(cookie[b])'
    BY <1>1 DEF Live, Sessions
<1>4. OpenAt(b)' = OpenAt(b)
    BY <1>1 DEF OpenAt
<1>5. \A c \in OpenAt(b) : call[c].by = b
    BY DEF OpenAt
<1>6. \A c \in OpenAt(b) : CallFits(call[c])'
    BY <1>1, <1>3, <1>5 DEF CalmAt, CallFits, Live, Sessions
<1>7. \A t \in Tabs : BrowserOf[t] = b => PageFits(t)'
    BY <1>1, <1>3 DEF CalmAt, PageFits, UserOf
<1>8. Reachable(b)'
  <2>1. \A k : InAnswer(k, b) => InAnswer(k, b)'
      BY <1>1, <1>4 DEF InAnswer
  <2>2. \A k \in Sessions' : Live(k)' => k \in Sessions /\ Live(k)
      BY <1>1 DEF Live, Sessions
  <2> QED BY <1>1, <2>1, <2>2 DEF CalmAt, Reachable
<1>9. TabsAt(b)'
    BY <1>1 DEF CalmAt, TabsAt
<1> QED BY <1>4, <1>6, <1>7, <1>8, <1>9 DEF CalmAt

LEMMA StutterCalm == ASSUME CalmInv, UNCHANGED vars PROVE CalmInv'
<1>1. UNCHANGED <<granted, revoked, expired, lapsed, cookie, tab, call, calm>>
    BY DEF vars, rows
<1>2. OneSuccessor' <=> OneSuccessor
    BY <1>1 DEF OneSuccessor, Sessions
<1>3. ASSUME NEW b \in Browsers, CalmAt(b) PROVE CalmAt(b)'
  <2>1. OpenAt(b)' = OpenAt(b)
      BY <1>1 DEF OpenAt
  <2>2. \A c \in OpenAt(b) : CallFits(call[c])'
      BY <1>1, <1>3 DEF CalmAt, CallFits, Live, Sessions
  <2>3. \A t \in Tabs : BrowserOf[t] = b => PageFits(t)'
      BY <1>1, <1>3 DEF CalmAt, PageFits, UserOf, Live, Sessions
  <2>4. Reachable(b)'
      BY <1>1, <1>3, <2>1 DEF CalmAt, Reachable, InAnswer, Live, Sessions
  <2>5. TabsAt(b)'
      BY <1>1, <1>3 DEF CalmAt, TabsAt
  <2> QED BY <1>3, <2>1, <2>2, <2>3, <2>4, <2>5 DEF CalmAt
<1>4. calm' = calm
    BY <1>1
<1> QED BY <1>2, <1>3, <1>4 DEF CalmInv

LEMMA InitCalm == Init => CalmInv
<1> SUFFICES ASSUME Init PROVE CalmInv
    OBVIOUS
<1>1. Sessions = Browsers /\ \A k \in Sessions : granted[k].agent = k /\ granted[k].parent = 0
    BY DEF Init, NewSession, Sessions
<1>2. OneSuccessor
    BY <1>1 DEF OneSuccessor
<1>3. ASSUME NEW b \in Browsers PROVE CalmAt(b)
  <2>1. OpenAt(b) = {}
      BY DEF Init, OpenAt
  <2>2. \A t \in Tabs : tab[t].shows = "nothing" /\ tab[t].token = 0
      BY DEF Init, NewPage
  <2>3. Reachable(b)
      BY <1>1 DEF Init, Reachable, Live
  <2>4. TabsAt(b) /\ \A t \in Tabs : PageFits(t)
      BY <2>2 DEF TabsAt, PageFits
  <2> QED BY <2>1, <2>3, <2>4 DEF CalmAt
<1> QED BY <1>2, <1>3 DEF CalmInv

LEMMA NextCalm == IInv /\ IInv' /\ CalmInv /\ [Next]_vars => CalmInv'
<1> SUFFICES ASSUME IInv, IInv', CalmInv, [Next]_vars PROVE CalmInv'
    OBVIOUS
<1>1. ASSUME NEW t \in Tabs, OpenPage(t) \/ SubmitLogin(t) \/ ClickLogout(t) PROVE CalmInv'
    BY <1>1, OpenPageCalm, SubmitCalm
<1>2. ASSUME NEW c \in DOMAIN call, Serve(c) PROVE CalmInv'
    BY <1>2, LookCalm, RotateCalm, LogInCalm, LogOutCalm DEF Serve
<1>3. ASSUME NEW c \in DOMAIN call, Arrive(c) PROVE CalmInv'
    BY <1>3, ArriveCalm
<1>4. ASSUME NEW c \in DOMAIN call, Lose(c) PROVE CalmInv'
    BY <1>4 DEF Lose, CalmInv
<1>5. ASSUME NEW k \in Sessions, Lapse(k) \/ Expire(k) PROVE CalmInv'
    BY <1>5, TimeCalm
<1>6. CASE UNCHANGED vars
    BY <1>6, StutterCalm
<1> QED BY <1>1, <1>2, <1>3, <1>4, <1>5, <1>6 DEF Next

LEMMA CalmInvariance == Spec => []CalmInv
<1>1. IInv /\ [Next]_vars => IInv'
    BY NextInv
<1>2. IInv /\ CalmInv /\ [Next]_vars => IInv' /\ CalmInv'
    BY <1>1, NextCalm
<1>3. Init => IInv /\ CalmInv
    BY InitInv, InitCalm
<1> QED BY <1>2, <1>3, PTL DEF Spec

\* A refresh token is good for one refresh as long as its browser does one thing at a time
\* (SuccessorsAreUnique; auth.service.ts:37-66).
THEOREM OneRefreshPerToken == Spec => []SuccessorsAreUnique
<1>1. CalmInv => SuccessorsAreUnique
    BY DEF CalmInv, OneSuccessor, SuccessorsAreUnique
<1> QED BY <1>1, CalmInvariance, PTL

\* Such a browser, when it waits for nothing, has left no session open but the one of its
\* cookie, and after a logout none (NoSessionLeftBehind; auth.service.ts:68-74).
THEOREM NoSessionIsLeft == Spec => []NoSessionLeftBehind
<1>1. CalmInv => NoSessionLeftBehind
    BY IdleCalm DEF CalmInv, NoSessionLeftBehind
<1> QED BY <1>1, CalmInvariance, PTL

\* The page, its access token and its cookie agree: on the browser whatever overlaps, and
\* on the user as well where one thing is done at a time (PageAgrees; auth.ts:50-86).
THEOREM PagesAgree == Spec => []PageAgrees
<1>1. IInv /\ CalmInv => PageAgrees
  <2> SUFFICES ASSUME IInv, CalmInv PROVE PageAgrees
      OBVIOUS
  <2>1. \A b \in Browsers : cookie[b] # 0 => granted[cookie[b]].agent = b
      BY DEF IInv, Belongs, CookiesBelong
  <2>2. ASSUME NEW t \in Tabs, tab[t].shows = "in"
        PROVE  LET k == tab[t].token  b == BrowserOf[t] IN
               /\ k # 0 /\ UserOf(k) = tab[t].user /\ granted[k].agent = b
               /\ calm /\ cookie[b] # 0 => UserOf(cookie[b]) = tab[t].user
    <3>1. PageBelongs(tab[t], BrowserOf[t], granted)
        BY DEF IInv, Belongs, PagesBelong
    <3>2. calm => PageFits(t)
        BY DEF CalmInv, CalmAt
    <3> QED BY <2>2, <3>1, <3>2 DEF PageBelongs, PageFits, UserOf
  <2> QED BY <2>1, <2>2 DEF PageAgrees
<1>2. Spec => []IInv
    BY InitInv, NextInv, PTL DEF Spec
<1> QED BY <1>1, <1>2, CalmInvariance, PTL
=============================================================================
