------------------------------- MODULE SignIn -------------------------------
(***************************************************************************)
(* Signing in to one account: the sign-in form and its emailed links, the  *)
(* page that says where the link went, Google, the dialog that asks for a  *)
(* name, signing out, and the tokens that let a browser into the sync      *)
(* server.  A link may be opened in another browser than asked for it.     *)
(* Better Auth, Google and the mailbox are external; a tick is 5 minutes.  *)
(***************************************************************************)
EXTENDS Naturals, FiniteSets

CONSTANTS Browsers,
          Names,      \* the display names the person chooses from
          LinkLife,   \* how long a link works, in ticks (15 minutes)
          CookieLife, \* how long a browser's copy of its session is believed (5 minutes)
          TokenLife,  \* how long a sync token works (10 minutes)
          MaxLinks,   \* links that are sent, in the model
          None

VARIABLES account,  \* the user's record: its name ("" until chosen), or None
          signedIn, \* the browsers whose session is in the database
          cookie,   \* each browser's copy of its session: the name in it, and how long it lasts
          screen,   \* what each browser shows: where, the place it is at or sends the person to, under
                    \* which name, the error the page arrived with and the request it waits for
          mailbox,  \* the links that were sent: the place, how long each works, and who asked
          token,    \* each browser's sync token: the name in it, and how long it lasts
          peer,     \* the name each browser is connected to the sync server under
          headed,   \* (history) the place each browser was last asked for
          renamed   \* (history) ticks until nothing carries the name of before the last change

vars == <<account, signedIn, cookie, screen, mailbox, token, peer, headed, renamed>>

\* Places of the app: the library, a folder, a search for "a%26b", and what that turns into.
Library == "/app"
Places == {Library, "/app/folders/f", "/app/search?q=a%26b"}
Plain == {Library, "/app/folders/f"}

\* decodeURIComponent, which takes off one more escape than the address had.
Decoded(p) == IF p = "/app/search?q=a%26b" THEN "/app/search?q=a&b" ELSE p

\* safeCallbackUrl.
SafeCallback(p) == IF p = None THEN Library ELSE Decoded(p)

\* The name of whoever has not chosen one.
Nameless == ""

Site == [at |-> "site", place |-> Library, name |-> Nameless, error |-> "none", pending |-> "none"]

Init ==
  /\ account = None /\ signedIn = {} /\ mailbox = {} /\ renamed = 0
  /\ cookie = [d \in Browsers |-> None] /\ token = cookie /\ peer = cookie
  /\ screen = [d \in Browsers |-> Site]
  /\ headed = [d \in Browsers |-> Library]

-----------------------------------------------------------------------------
\* Sessions.

\* getSession: the browser's own copy while it lasts, or else the database.
Session(d) ==
  CASE cookie[d] # None -> [name |-> cookie[d].name]
    [] cookie[d] = None /\ d \in signedIn -> [name |-> account.name]
    [] OTHER -> None

\* createProxy and the layout: the app's page, or the way to sign in.
AppPage(d, p) ==
  IF Session(d) # None
  THEN [Site EXCEPT !.at = "app", !.place = p, !.name = Session(d).name]
  ELSE [Site EXCEPT !.at = "sign-in", !.place = SafeCallback(p)]

\* SignInPage: whoever is signed in goes straight on, unless there is an error to show.
SignInPage(d, to, error) ==
  IF error = "none" /\ Session(d) # None THEN AppPage(d, SafeCallback(to))
  ELSE [Site EXCEPT !.at = "sign-in", !.place = SafeCallback(to), !.error = error]

\* A new session, of an account that is made when there is none, and on to the place p.
StartSession(d, name, p) ==
  LET n == IF account = None THEN name ELSE account.name IN
  /\ account' = [name |-> n]
  /\ signedIn' = signedIn \cup {d}
  /\ cookie' = [cookie EXCEPT ![d] = [name |-> n, left |-> CookieLife]]
  /\ screen' = [screen EXCEPT ![d] = [Site EXCEPT !.at = "app", !.place = p, !.name = n]]
  /\ UNCHANGED <<token, peer, renamed>>

Show(d, s) == screen' = [screen EXCEPT ![d] = s]
Idle(d) == screen[d].pending = "none"

unchangedButScreen == <<account, signedIn, cookie, mailbox, token, peer, renamed>>

\* The person asks for a place of the app, or for the sign-in page.
Ask(d, p) ==
  /\ Idle(d) /\ Show(d, AppPage(d, p))
  /\ headed' = [headed EXCEPT ![d] = p]
  /\ UNCHANGED unchangedButScreen

VisitSignIn(d) ==
  /\ Idle(d) /\ Show(d, SignInPage(d, None, "none"))
  /\ headed' = [headed EXCEPT ![d] = Library]
  /\ UNCHANGED unchangedButScreen

-----------------------------------------------------------------------------
\* The form, the link and Google.

\* sendMagicLink and ResendLink's resend.
AskForLink(d) ==
  /\ screen[d].at \in {"sign-in", "verify"} /\ Idle(d)
  /\ Show(d, [screen[d] EXCEPT !.pending = "link"])
  /\ UNCHANGED <<unchangedButScreen, headed>>

\* (Mutant: the error page is the plain sign-in page.)
ErrorCallbackPlain(to) == None

\* What the link's error page is to send the person on to (errorCallbackURL).
ErrorCallback(to) == to

\* The link is mailed; the form goes on to the page that says so.
SendLink(d) ==
  LET to == screen[d].place IN
  /\ screen[d].pending = "link" /\ Cardinality(mailbox) < MaxLinks
  /\ mailbox' = mailbox \cup
       {[n |-> 1 + Cardinality(mailbox), to |-> to, error |-> ErrorCallback(to),
         left |-> LinkLife, headed |-> headed[d]]}
  /\ Show(d, [Site EXCEPT !.at = "verify", !.place = IF screen[d].at = "verify" THEN to ELSE SafeCallback(to)])
  /\ UNCHANGED <<account, signedIn, cookie, token, peer, headed, renamed>>

\* Too many attempts, or the mail could not be sent: the form says so and can be sent again.
Refuse(d) ==
  /\ screen[d].pending # "none"
  /\ Show(d, [screen[d] EXCEPT !.pending = "none"])
  /\ UNCHANGED <<unchangedButScreen, headed>>

\* "Use a different email".
UseAnother(d) ==
  /\ screen[d].at = "verify" /\ Idle(d)
  /\ Show(d, SignInPage(d, screen[d].place, "none"))
  /\ UNCHANGED <<unchangedButScreen, headed>>

\* The link is opened, in any browser: it works once, and while it lasts.
OpenLink(d, l) ==
  /\ Idle(d)
  /\ headed' = [headed EXCEPT ![d] = l.headed]
  /\ \/ /\ l.left > 0
        /\ StartSession(d, Nameless, l.to)
        /\ mailbox' = (mailbox \ {l}) \cup {[l EXCEPT !.left = 0]}
     \/ /\ l.left = 0
        /\ Show(d, SignInPage(d, l.error, "expired"))
        /\ UNCHANGED unchangedButScreen

\* signInWithGoogle: the browser leaves for Google, and comes back signed in or with an error.
AskGoogle(d) ==
  /\ screen[d].at = "sign-in" /\ Idle(d)
  /\ Show(d, [screen[d] EXCEPT !.pending = "google"])
  /\ UNCHANGED <<unchangedButScreen, headed>>

BackFromGoogle(d) ==
  /\ screen[d].pending = "google"
  /\ \/ \E n \in Names : StartSession(d, n, screen[d].place)
     \/ /\ Show(d, SignInPage(d, ErrorCallback(screen[d].place), "cancelled"))
        /\ UNCHANGED <<account, signedIn, cookie, token, peer, renamed>>
  /\ UNCHANGED <<mailbox, headed>>

-----------------------------------------------------------------------------
\* Signed in.

\* NameDialog's save, held until there is a name: the server takes it from a session of its own, and
\* the page is drawn again with it.
SaveName(d, n) ==
  /\ screen[d].at = "app" /\ screen[d].name = Nameless /\ d \in signedIn
  /\ account' = [name |-> n]
  /\ cookie' = [cookie EXCEPT ![d] = [name |-> n, left |-> CookieLife]]
  /\ screen' = [screen EXCEPT ![d].name = n]
  /\ renamed' = IF n = account.name THEN renamed ELSE CookieLife + TokenLife
  /\ UNCHANGED <<signedIn, mailbox, token, peer, headed>>

\* signOut of the menu and of the dialog, which leaves also when the server did not answer.
SignOut(d) ==
  /\ screen[d].at = "app"
  /\ \/ signedIn' = signedIn \ {d} /\ cookie' = [cookie EXCEPT ![d] = None]
     \/ screen[d].name = Nameless /\ UNCHANGED <<signedIn, cookie>>
  /\ Show(d, Site) /\ headed' = [headed EXCEPT ![d] = Library]
  /\ UNCHANGED <<account, mailbox, token, peer, renamed>>

\* (Mutant: for whoever is signed in; displayName then makes a name of the address.)
MayConnectNameless(d) == Session(d) # None

\* A sync token, for whoever is signed in with a name (the route, signSyncToken).
MayConnect(d) == Session(d) # None /\ Session(d).name # Nameless

GetToken(d) ==
  /\ MayConnect(d)
  /\ token' = [token EXCEPT ![d] =
       [name |-> IF Session(d).name = Nameless THEN "maya" ELSE Session(d).name, left |-> TokenLife]]
  /\ UNCHANGED <<account, signedIn, cookie, screen, mailbox, peer, headed, renamed>>

\* onAuthenticate: the sync server believes a token that has not expired (verifySyncToken).
Connect(d) ==
  /\ peer[d] = None /\ token[d] # None /\ token[d].left > 0
  /\ peer' = [peer EXCEPT ![d] = token[d].name]
  /\ UNCHANGED <<account, signedIn, cookie, screen, mailbox, token, headed, renamed>>

Disconnect(d) ==
  /\ peer[d] # None /\ peer' = [peer EXCEPT ![d] = None]
  /\ UNCHANGED <<account, signedIn, cookie, screen, mailbox, token, headed, renamed>>

-----------------------------------------------------------------------------
\* Time.

\* A session ends after 30 days, by when the browser's copy of it is long gone.
EndSession(d) ==
  /\ d \in signedIn /\ cookie[d] = None /\ signedIn' = signedIn \ {d}
  /\ UNCHANGED <<account, cookie, screen, mailbox, token, peer, headed, renamed>>

Less(n) == IF n = 0 THEN 0 ELSE n - 1

Tick ==
  /\ cookie' = [d \in Browsers |-> IF cookie[d] = None \/ cookie[d].left = 1 THEN None
                                   ELSE [cookie[d] EXCEPT !.left = @ - 1]]
  /\ token' = [d \in Browsers |-> IF token[d] = None THEN None ELSE [token[d] EXCEPT !.left = Less(@)]]
  /\ mailbox' = {[l EXCEPT !.left = Less(@)] : l \in mailbox}
  /\ renamed' = Less(renamed)
  /\ UNCHANGED <<account, signedIn, screen, peer, headed>>

\* The ways in, and what somebody who is in does.
Enter(d) ==
  \/ VisitSignIn(d) \/ AskForLink(d) \/ SendLink(d) \/ Refuse(d) \/ UseAnother(d)
  \/ AskGoogle(d) \/ BackFromGoogle(d)
  \/ \E p \in Places : Ask(d, p)
  \/ \E l \in mailbox : OpenLink(d, l)

Leave(d) == SignOut(d) \/ EndSession(d)
Join(d) == GetToken(d) \/ Connect(d) \/ Disconnect(d) \/ \E n \in Names : SaveName(d, n)

Next == Tick \/ \E d \in Browsers : Enter(d) \/ Leave(d) \/ Join(d)

Spec == Init /\ [][Next]_vars

-----------------------------------------------------------------------------
\* Properties.

\* Every variable holds a value of its kind.
TypeOK ==
  /\ account \in {None} \cup [name : Names \cup {Nameless}] /\ signedIn \subseteq Browsers
  /\ \A d \in Browsers :
       /\ cookie[d] = None \/ cookie[d].left \in 1..CookieLife
       /\ token[d] = None \/ token[d].left \in 0..TokenLife
       /\ screen[d].at \in {"site", "sign-in", "verify", "app"}
       /\ screen[d].pending \in {"none", "link", "google"}
  /\ Cardinality(mailbox) <= MaxLinks /\ renamed \in 0..(CookieLife + TokenLife)

\* Whatever happens on the way in (a second link, a link that has expired or is opened in another
\* browser, another address, a Google sign-in that was cancelled), the person is on the way to the
\* place that was asked for, or there: sign-in/page.tsx, sign-in-form.tsx, resend-link.tsx,
\* verify/page.tsx.  Places whose address has an escape in it are not kept (see the README).
OnTheWay == \A d \in Browsers :
  screen[d].at # "site" /\ headed[d] \in Plain => screen[d].place = headed[d]

\* Nobody joins the sync server without a name the person chose, and once the copies of a session
\* and the tokens of before have run out, only under the name of today (the sync-token route,
\* verifySyncToken, auth.ts cookieCache).
JoinsByName ==
  [][\A d \in Browsers : peer'[d] # peer[d] /\ peer'[d] # None =>
       peer'[d] \in Names /\ (renamed = 0 => peer'[d] = account.name)]_vars
=============================================================================
