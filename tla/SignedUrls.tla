----------------------------- MODULE SignedUrls ------------------------------
(***************************************************************************)
(* Signed URLs: the AWS session that signs them, renewed in time and by    *)
(* one exchange for all who wait (packages/storage credentials.ts,         *)
(* client.ts), and the pages of a document that share one image and load   *)
(* it through a URL that is kept for a while (document-viewer.tsx,         *)
(* paper-canvas.tsx).  Google, STS and S3 are external.  The S3 client is  *)
(* taken to ask for credentials whenever it signs, as credentials.ts does. *)
(***************************************************************************)
EXTENDS Naturals, FiniteSets

CONSTANTS Requests,    \* requests for a URL that may wait at once
          SessionLife, \* how long a session lasts, in half hours (12 hours)
          RenewBefore, \* how long before its end it is renewed (2 hours)
          UrlLife,     \* how long an upload's URL works (an hour; a read's, less)
          Pages,       \* the pages that show the image
          ReadLife,    \* how long a read's URL works, in ticks of 5 minutes (15 minutes)
          StaleAfter,  \* when the browser asks for a new one (10 minutes)
          None

VARIABLES current,   \* half hours the session has left, None before the first
          renewing,  \* the exchange that is under way, if there is one
          exchanges, \* exchanges with Google and STS under way
          waiting,   \* the requests that wait for it
          refused,   \* the requests that failed
          urls,      \* URLs that work: what is left of their hour, and of the session that signed them
          cached,    \* how old the image's URL is in the browser's cache, None if there is none
          query,     \* what became of asking for it
          near,      \* the pages that are near the screen
          image      \* what became of each page's image

credentialVars == <<current, renewing, exchanges, waiting, refused, urls>>
pageVars == <<cached, query, near, image>>
vars == <<credentialVars, pageVars>>

Init ==
  /\ current = None /\ renewing = FALSE /\ exchanges = 0
  /\ waiting = {} /\ refused = {} /\ urls = {}
  /\ cached = None /\ query = "idle" /\ near = {}
  /\ image = [p \in Pages |-> "none"]

-----------------------------------------------------------------------------
\* Credentials.

\* (Mutant: a session is good until its end.)
FreshToTheEnd == current # None /\ current > 0

Fresh == current # None /\ current > RenewBefore

\* presignUpload and presignPart, with the credentials there are.
Signed(left) == [left |-> UrlLife, session |-> left]

Less(n) == IF n = 0 THEN 0 ELSE n - 1

\* (Mutant: everybody who finds the session old exchanges the token.)
JoinNobody(r) ==
  /\ waiting' = waiting \cup {r} /\ renewing' = TRUE /\ exchanges' = exchanges + 1

\* One exchange at a time, however many requests are waiting.
JoinExchange(r) ==
  /\ waiting' = waiting \cup {r} /\ renewing' = TRUE
  /\ exchanges' = IF renewing THEN exchanges ELSE exchanges + 1

\* The provider, asked for the credentials to sign a URL with.
NeedUrl(r) ==
  /\ r \notin waiting
  /\ refused' = refused \ {r}
  /\ \/ /\ Fresh
        /\ urls' = urls \cup {Signed(current)}
        /\ UNCHANGED <<waiting, renewing, exchanges>>
     \/ /\ ~Fresh /\ JoinExchange(r)
        /\ UNCHANGED urls
  /\ UNCHANGED <<current, pageVars>>

\* metadataIdToken and assumeRole went well: everyone who waits has the new session.
Renewed ==
  /\ exchanges > 0 /\ exchanges' = exchanges - 1
  /\ current' = SessionLife /\ renewing' = FALSE
  /\ urls' = IF waiting = {} THEN urls ELSE urls \cup {Signed(SessionLife)}
  /\ waiting' = {}
  /\ UNCHANGED <<refused, pageVars>>

\* Or one of the two failed: everyone who waits fails, and the next one tries again.
ExchangeFails ==
  /\ exchanges > 0 /\ exchanges' = exchanges - 1
  /\ renewing' = FALSE
  /\ refused' = refused \cup waiting /\ waiting' = {}
  /\ UNCHANGED <<current, urls, pageVars>>

HalfHour ==
  /\ current' = IF current = None THEN None ELSE Less(current)
  /\ urls' = {[left |-> u.left - 1, session |-> Less(u.session)] : u \in {v \in urls : v.left > 1}}
  /\ UNCHANGED <<renewing, exchanges, waiting, refused, pageVars>>

-----------------------------------------------------------------------------
\* The image of the pages.

\* (Mutant: the URL is asked for again after it has expired for a while.)
StaleLate == cached # None /\ cached > ReadLife

\* A cached URL is used, and asked for again when it is older than staleTime.
Stale == cached # None /\ cached >= StaleAfter

\* useLoadedImage: S3 looks at the URL's age when it is asked for the image.
Outcomes(age) == IF age < ReadLife THEN {"drawn", "broken"} ELSE {"expired"}

\* A page comes near the screen: useQuery, and the image through what the cache has.
ComesNear(p) ==
  /\ p \notin near /\ near' = near \cup {p}
  /\ query' = IF cached = None \/ Stale THEN "asked" ELSE query
  /\ \E o \in IF cached = None THEN {"none"} ELSE Outcomes(cached) : image' = [image EXCEPT ![p] = o]
  /\ UNCHANGED <<cached, credentialVars>>

\* readUrl: a URL signed now.  Every page near loads its image anew, and keeps the old one till then.
UrlArrives ==
  /\ query = "asked" /\ query' = "idle"
  /\ cached' = 0
  /\ \E o \in Outcomes(0) :
       image' = [p \in Pages |-> IF p \notin near \/ image[p] = "drawn" THEN image[p] ELSE o]
  /\ UNCHANGED <<near, credentialVars>>

\* The file is not ready, not to be seen, or cannot be reached, the second time too (retry: 1).
UrlRefused ==
  /\ query = "asked" /\ query' = "refused"
  /\ UNCHANGED <<cached, near, image, credentialVars>>

\* The document is closed, and what the cache holds of it is dropped 5 minutes later.
CloseDocument ==
  /\ near # {} /\ near' = {}
  /\ image' = [p \in Pages |-> "none"]
  /\ query' = IF query = "asked" THEN query ELSE "idle"
  /\ UNCHANGED <<cached, credentialVars>>

FiveMinutes ==
  /\ cached' = IF cached = None \/ (near = {} /\ cached > 0) THEN None
               ELSE IF cached > ReadLife THEN cached ELSE cached + 1
  /\ UNCHANGED <<query, near, image, credentialVars>>

Next ==
  \/ \E r \in Requests : NeedUrl(r)
  \/ Renewed \/ ExchangeFails \/ HalfHour
  \/ \E p \in Pages : ComesNear(p)
  \/ UrlArrives \/ UrlRefused \/ CloseDocument \/ FiveMinutes

Spec == Init /\ [][Next]_vars

-----------------------------------------------------------------------------
\* Properties.

\* Every variable holds a value of its kind.
TypeOK ==
  /\ current \in {None} \cup 0..SessionLife /\ renewing \in BOOLEAN /\ exchanges \in 0..Cardinality(Requests)
  /\ waiting \subseteq Requests /\ refused \subseteq Requests
  /\ urls \subseteq [left : 1..UrlLife, session : 0..SessionLife]
  /\ cached \in {None} \cup 0..(ReadLife + 1) /\ query \in {"idle", "asked", "refused"}
  /\ near \subseteq Pages
  /\ image \in [Pages -> {"none", "drawn", "broken", "expired"}]

\* A URL works as long as it says: the session that signed it outlives it (credentials.ts).
LastsItsLife == \A u \in urls : u.session >= u.left

\* However many requests find the session old, one exchange is under way, and nobody waits for
\* an exchange that has ended (credentials.ts renewing).
OneExchange == exchanges <= 1 /\ (waiting # {} => exchanges = 1)

\* A page that could not load its image, because the URL had expired in the cache, has a new one on
\* its way, or was refused one (document-viewer.tsx staleTime).
ExpiredIsReplaced == \A p \in Pages : image[p] = "expired" => query # "idle"
=============================================================================
