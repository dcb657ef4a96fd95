------------------------------ MODULE Sessions ------------------------------
(***************************************************************************)
(* Signing in and staying signed in: AuthService's login, refresh, logout  *)
(* and me with the RefreshSession table, the refresh cookie a browser      *)
(* keeps, and the store of apps/web/src/auth.ts in each of its tabs.       *)
(*                                                                         *)
(* Every session row k stands for three things that are created together:  *)
(* the row, the refresh token whose hash it holds, and the access token    *)
(* that is issued with it.  A tab's store, its sessionStorage and the      *)
(* Authorization header always hold the same access token, so one field    *)
(* stands for all of them.  The cookie is shared by the tabs of a browser. *)
(*                                                                         *)
(* refresh reads the session in one statement and revokes it in another,   *)
(* so it takes two actions; everything else the server does is decided by  *)
(* one statement.  A page that is reloaded abandons its calls: the server  *)
(* may still carry them out, but nobody looks at the answer, and the       *)
(* cookie it carries is dropped.                                           *)
(***************************************************************************)
EXTENDS Integers, Sequences

CONSTANTS
    BrowserCount,   \* browsers 1 .. BrowserCount
    Tabs,           \* browser tabs
    BrowserOf,      \* BrowserOf[t]: the browser of tab t
    Users,          \* users who know their password
    OpeningUser,    \* OpeningUser[b]: who was last signed in in browser b
    MaxCalls,       \* bound: how often a page is opened, a login sent or logout clicked,
                    \* MaxCalls[TRUE] in a calm browser, MaxCalls[FALSE] otherwise
    None

Browsers == 1 .. BrowserCount

ASSUME SessionsAssumption ==
    /\ BrowserCount \in Nat \ {0}
    /\ BrowserOf \in [Tabs -> Browsers]
    /\ OpeningUser \in [Browsers -> Users]
    /\ MaxCalls \in [BOOLEAN -> Nat]
    /\ None \notin Users \cup Tabs

VARIABLES
    granted,    \* the RefreshSession rows: user, browser, and the row each one replaces
    revoked,    \* rows with revokedAt
    expired,    \* rows whose expiresAt has passed, thirty days after their creation
    lapsed,     \* rows whose access token has expired, fifteen minutes after
    cookie,     \* cookie[b]: the row of the refresh cookie, 0 if there is none
    tab,        \* the page in each tab: what it shows, its access token and its user
    call,       \* the calls made to the API so far
    calm        \* the user of a browser has one tab open, waits for every answer, and
                \* no answer is lost; chosen at the start

rows == <<granted, revoked, expired, lapsed>>
vars == <<rows, cookie, tab, call, calm>>

Session == [user : Users, agent : Browsers, parent : Nat]
Page == [shows : {"nothing", "loading", "in", "out"}, token : Nat, user : Users \cup {None}]
Call == [req : {"me", "refresh", "login", "logout"}, by : Browsers, tab : Tabs \cup {None},
         key : Nat, who : Users \cup {None}, pc : {"asked", "read", "answered", "over"},
         got : Nat]

NewPage(shows, token, user) == [shows |-> shows, token |-> token, user |-> user]
NewSession(user, agent, parent) == [user |-> user, agent |-> agent, parent |-> parent]

\* Browsers were used before: some are still signed in, others have signed out.
Init ==
    /\ granted = [b \in Browsers |-> NewSession(OpeningUser[b], b, 0)]
    /\ \E signedIn \in SUBSET Browsers :
          /\ revoked = Browsers \ signedIn
          /\ cookie = [b \in Browsers |-> IF b \in signedIn THEN b ELSE 0]
    /\ expired = {}
    /\ lapsed = Browsers
    /\ tab = [t \in Tabs |-> NewPage("nothing", 0, None)]
    /\ call = <<>>
    /\ calm \in BOOLEAN

Sessions == DOMAIN granted
Live(k) == k \in Sessions \ (revoked \cup expired)
UserOf(k) == granted[k].user

-----------------------------------------------------------------------------
(***************************************************************************)
(* The page: what a user starts in a tab.                                  *)
(***************************************************************************)
Ask(req, t, key, who) ==
    [req |-> req, by |-> BrowserOf[t], tab |-> t, key |-> key, who |-> who,
     pc |-> "asked", got |-> 0]

InFlight(c) == call[c].tab # None /\ call[c].pc # "over"

\* Nobody waits for an answer in browser b, and the server has nothing of it to do.
Idle(b) == \A c \in DOMAIN call :
              call[c].by = b => ~ InFlight(c) /\ call[c].pc \in {"answered", "over"}
OnlyTab(t) == \A u \in Tabs : BrowserOf[u] = BrowserOf[t] /\ u # t => tab[u].shows = "nothing"
MayAct(t) == Len(call) < MaxCalls[calm] /\ (calm => Idle(BrowserOf[t]) /\ OnlyTab(t))

Abandoned(t) == [c \in DOMAIN call |->
                   IF call[c].tab = t THEN [call[c] EXCEPT !.tab = None] ELSE call[c]]

\* bootstrap asks who the stored token belongs to, or else for a new token.
Bootstrap(t, token) ==
    IF token # 0 THEN Ask("me", t, token, None)
                 ELSE Ask("refresh", t, cookie[BrowserOf[t]], None)

StartedCalls_Twice(t, token) ==
    Abandoned(t) \o <<Bootstrap(t, token), Bootstrap(t, token)>>
StartedCalls(t, token) == Append(Abandoned(t), Bootstrap(t, token))

\* The application is opened or reloaded in tab t.  A reload keeps sessionStorage, a
\* new tab in its place does not.
OpenPage(t) ==
    /\ MayAct(t)
    /\ \E token \in {tab[t].token, 0} :
          /\ tab' = [tab EXCEPT ![t] = NewPage("loading", token, None)]
          /\ call' = StartedCalls(t, token)
    /\ UNCHANGED <<rows, cookie, calm>>

LoginShown_WhileLoading(t) == tab[t].shows \in {"loading", "out"}
LoginShown(t) == tab[t].shows = "out"

\* A login with the right password of some user, or with wrong credentials (None).
SubmitLogin(t) ==
    /\ MayAct(t)
    /\ LoginShown(t)
    /\ \A c \in DOMAIN call : InFlight(c) /\ call[c].tab = t => call[c].req # "login"
    /\ \E u \in Users \cup {None} : call' = Append(call, Ask("login", t, 0, u))
    /\ UNCHANGED <<rows, cookie, tab, calm>>

\* The button is not disabled while a logout is under way.
ClickLogout(t) ==
    /\ MayAct(t)
    /\ tab[t].shows = "in"
    /\ call' = Append(call, Ask("logout", t, cookie[BrowserOf[t]], None))
    /\ UNCHANGED <<rows, cookie, tab, calm>>

-----------------------------------------------------------------------------
(***************************************************************************)
(* The server.                                                             *)
(***************************************************************************)
Served(c, pc, got) ==
    call' = [call EXCEPT ![c] =
               [req |-> call[c].req, by |-> call[c].by, tab |-> call[c].tab,
                key |-> call[c].key, who |-> call[c].who, pc |-> pc, got |-> got]]

\* JwtAuthGuard and me: the token is genuine and not too old.  No session is consulted.
CheckMe(c) ==
    /\ call[c].req = "me" /\ call[c].pc = "asked"
    /\ Served(c, "answered", IF call[c].key \in lapsed THEN 0 ELSE call[c].key)
    /\ UNCHANGED <<rows, cookie, tab, calm>>

ReadSession(c) ==
    /\ call[c].req = "refresh" /\ call[c].pc = "asked"
    /\ IF Live(call[c].key) THEN Served(c, "read", 0) ELSE Served(c, "answered", 0)
    /\ UNCHANGED <<rows, cookie, tab, calm>>

Issue_NoAgent(c, user, parent) ==
    /\ granted' = Append(granted, NewSession(user, None, parent))
    /\ Served(c, "answered", Len(granted) + 1)
Issue(c, user, parent) ==
    /\ granted' = Append(granted, NewSession(user, call[c].by, parent))
    /\ Served(c, "answered", Len(granted) + 1)

Rotate_KeepsOld(c) ==
    /\ call[c].req = "refresh" /\ call[c].pc = "read"
    /\ Issue(c, UserOf(call[c].key), call[c].key)
    /\ UNCHANGED <<revoked, expired, lapsed, cookie, tab, calm>>

\* The transaction updates the row by id: it is not asked again whether it is live.
Rotate(c) ==
    /\ call[c].req = "refresh" /\ call[c].pc = "read"
    /\ revoked' = revoked \cup {call[c].key}
    /\ Issue(c, UserOf(call[c].key), call[c].key)
    /\ UNCHANGED <<expired, lapsed, cookie, tab, calm>>

LogIn(c) ==
    /\ call[c].req = "login" /\ call[c].pc = "asked"
    /\ IF call[c].who = None
       THEN Served(c, "answered", 0) /\ UNCHANGED granted
       ELSE Issue(c, call[c].who, 0)
    /\ UNCHANGED <<revoked, expired, lapsed, cookie, tab, calm>>

Ended_CookieOnly(key) == {}
Ended(key) == {key} \cap Sessions

LogOut(c) ==
    /\ call[c].req = "logout" /\ call[c].pc = "asked"
    /\ revoked' = revoked \cup Ended(call[c].key)
    /\ Served(c, "answered", 0)
    /\ UNCHANGED <<granted, expired, lapsed, cookie, tab, calm>>

Serve(c) == CheckMe(c) \/ ReadSession(c) \/ Rotate(c) \/ LogIn(c) \/ LogOut(c)

-----------------------------------------------------------------------------
(***************************************************************************)
(* The answer, or the error the page sees instead.                         *)
(***************************************************************************)
SignedOut == NewPage("out", 0, None)
SignedIn_KeepsUser(t, k) == NewPage("in", k, tab[t].user)
SignedIn(t, k) == NewPage("in", k, UserOf(k))

Refused_StaysLoading(t) == NewPage("loading", 0, None)
Refused(t) == SignedOut

\* k is the session of a good answer, 0 after an error.
PageAfter(req, t, k) ==
    CASE req = "me"      -> IF k # 0 THEN SignedIn(t, k) ELSE NewPage("loading", 0, None)
      [] req = "refresh" -> IF k # 0 THEN SignedIn(t, k) ELSE Refused(t)
      [] req = "login"   -> IF k # 0 THEN SignedIn(t, k) ELSE tab[t]
      [] req = "logout"  -> SignedOut

Finished(c, pc) == [call EXCEPT ![c] =
    [req |-> call[c].req, by |-> call[c].by, tab |-> None, key |-> call[c].key,
     who |-> call[c].who, pc |-> pc, got |-> call[c].got]]

\* The page goes on.  A token that me refuses is thrown away and replaced by refresh.
Continue(c, pc, k) ==
    LET t == call[c].tab IN
    /\ tab' = [tab EXCEPT ![t] = PageAfter(call[c].req, t, k)]
    /\ call' = IF call[c].req = "me" /\ k = 0
               THEN Append(Finished(c, pc), Bootstrap(t, 0))
               ELSE Finished(c, pc)

CookieAfter(c) ==
    CASE call[c].req = "logout" -> 0
      [] call[c].req \in {"login", "refresh"} /\ call[c].got # 0 -> call[c].got
      [] OTHER -> cookie[call[c].by]

Arrive(c) ==
    /\ InFlight(c) /\ call[c].pc = "answered"
    /\ cookie' = [cookie EXCEPT ![call[c].by] = CookieAfter(c)]
    /\ Continue(c, "over", call[c].got)
    /\ UNCHANGED <<rows, calm>>

\* The connection breaks: the page sees an error, the server may still do its part.
Lose(c) ==
    /\ ~ calm
    /\ InFlight(c)
    /\ Continue(c, call[c].pc, 0)
    /\ UNCHANGED <<rows, cookie, calm>>

-----------------------------------------------------------------------------
(***************************************************************************)
(* Time.                                                                   *)
(***************************************************************************)
Lapse(k) ==
    /\ k \notin lapsed
    /\ lapsed' = lapsed \cup {k}
    /\ UNCHANGED <<granted, revoked, expired, cookie, tab, call, calm>>

Expire(k) ==
    /\ k \in lapsed \ expired
    /\ expired' = expired \cup {k}
    /\ UNCHANGED <<granted, revoked, lapsed, cookie, tab, call, calm>>

-----------------------------------------------------------------------------
Next ==
    \/ \E t \in Tabs : OpenPage(t) \/ SubmitLogin(t) \/ ClickLogout(t)
    \/ \E c \in DOMAIN call : Serve(c) \/ Arrive(c) \/ Lose(c)
    \/ \E k \in Sessions : Lapse(k) \/ Expire(k)

Spec == Init /\ [][Next]_vars

\* A call that a page waits for is answered or breaks; an abandoned one may be dropped.
\* Opening a page makes at most two calls, everything else one.
Progress(c) == c \in DOMAIN call /\ InFlight(c) /\ (Serve(c) \/ Arrive(c))
FairSpec == Spec /\ \A c \in 1 .. 2 * (MaxCalls[TRUE] + MaxCalls[FALSE]) : WF_vars(Progress(c))

-----------------------------------------------------------------------------
(***************************************************************************)
(* Properties.                                                             *)
(***************************************************************************)

\* Types; everything that names a session names one that exists.
TypeOK ==
    /\ granted \in Seq(Session)
    /\ revoked \subseteq Sessions /\ expired \subseteq Sessions /\ lapsed \subseteq Sessions
    /\ cookie \in [Browsers -> {0} \cup Sessions]
    /\ tab \in [Tabs -> Page]
    /\ call \in Seq(Call)
    /\ \A t \in Tabs : tab[t].token \in {0} \cup Sessions
    /\ \A c \in DOMAIN call : call[c].key \in {0} \cup Sessions
                              /\ call[c].got \in {0} \cup Sessions
    /\ calm \in BOOLEAN

\* A page that shows the workspace shows the user its access token was issued to, and
\* token and cookie were issued to this browser: no overlap of refresh, login, logout and
\* reloads mixes two users up inside a page (auth.ts:50-86).  If the browser does one
\* thing at a time, the cookie belongs to the user on the screen as well, so that a
\* refresh cannot turn the page over to somebody else.
PageAgrees ==
    /\ \A b \in Browsers : cookie[b] # 0 => granted[cookie[b]].agent = b
    /\ \A t \in Tabs : tab[t].shows = "in" =>
          LET k == tab[t].token  b == BrowserOf[t] IN
          /\ k # 0 /\ UserOf(k) = tab[t].user /\ granted[k].agent = b
          /\ calm /\ cookie[b] # 0 => UserOf(cookie[b]) = tab[t].user

\* Rotation (auth.service.ts:51-62): a session that replaces another one belongs to the
\* same user and browser, and the replaced one is revoked, whatever overlaps.
LineageOK ==
    \A k \in Sessions : granted[k].parent # 0 =>
        LET p == granted[k].parent IN
        /\ p < k /\ p \in revoked
        /\ granted[p].user = granted[k].user /\ granted[p].agent = granted[k].agent

\* While a page shows the spinner it waits for exactly one answer, to me or refresh, and
\* no login or logout of the same page is under way (App.tsx:147-154): the start-up refresh
\* cannot overwrite what a login has just stored.
BootstrapIsAlone ==
    \A t \in Tabs : tab[t].shows = "loading" =>
        \E c \in DOMAIN call :
            /\ InFlight(c) /\ call[c].tab = t /\ call[c].req \in {"me", "refresh"}
            /\ \A d \in DOMAIN call : d # c => ~ (InFlight(d) /\ call[d].tab = t)

\* A refresh token is good for one refresh, in a browser that does one thing at a time.
\* Two overlapping refreshes of it both read a live session (auth.service.ts:39-46) and
\* both create a successor.
SuccessorsAreUnique ==
    calm => \A j, k \in Sessions :
               granted[j].parent = granted[k].parent /\ granted[k].parent # 0 => j = k

\* In such a browser, when it waits for nothing, the only session it has left open is the
\* one of its cookie; after a logout there is none (auth.service.ts:68-74).  A logout that
\* overlaps a refresh, a lost answer and a reload during a login leave a live session
\* that nobody can end.
NoSessionLeftBehind ==
    calm => \A b \in Browsers : Idle(b) =>
               \A k \in Sessions : Live(k) /\ granted[k].agent = b => cookie[b] = k

\* The spinner does not stay (auth.ts:50-72): a page that starts ends up in the workspace
\* or at the login form, or is opened anew, even when calls fail.
BootstrapEnds ==
    \A t \in Tabs : tab[t].shows = "loading" ~> tab[t].shows # "loading"
=============================================================================
