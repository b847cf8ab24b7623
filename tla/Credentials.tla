----------------------------- MODULE Credentials -----------------------------
(***************************************************************************)
(* The upload credentials of a workspace: auth.py (one OAuth token file    *)
(* per YouTube channel), the studio's connect jobs with their guard in the *)
(* job store, the routes and uploads that load a token and may refresh it, *)
(* and quota.json, the local count of inserts (quota.py).  Every task runs *)
(* in a thread of its own and only a single file write is atomic.          *)
(***************************************************************************)
EXTENDS Integers, FiniteSets

CONSTANTS
  Channels,     \* YouTube channel ids, of the channels that upload through the API
  Accounts,     \* channel ids a consent can turn out to be for
  Tasks,        \* threads
  None,
  MaxInserts,   \* bound: videos inserted per channel
  MaxDay        \* bound: days, as YouTube's quota counts them

ASSUME CredentialsAssumption ==
  /\ Channels \subseteq Accounts
  /\ None \notin Accounts
  /\ MaxInserts \in Nat /\ MaxDay \in Nat \ {0}

VARIABLES
  token,       \* auth/token-<channel>.json: whose account, and whether it is still valid
  connecting,  \* JobStore._active_connects
  task,        \* what each thread does, where it is and what it holds in memory
  quota,       \* quota.json: inserts booked per channel and day
  today,
  inserted,    \* history: what YouTube was sent, per channel asked for
  landed,      \* history: <<the channel asked for, the account that got the video>>
  legacy       \* history: whose token each channel had before the first step

vars == <<token, connecting, task, quota, today, inserted, landed, legacy>>
fileVars == <<quota, today, inserted, landed, legacy>>

Days == 1..MaxDay
Token == [owner : Accounts, fresh : BOOLEAN]
Book == [Channels -> [Days -> 0..MaxInserts]]
EmptyBook == [c \in Channels |-> [d \in Days |-> 0]]

\* connect and view and upload run in the studio, auth on a command line.
Kinds == {"connect", "auth", "view", "upload"}
Steps == {"load", "refresh", "save", "consent", "verify", "store", "insert", "quota", "book"}
Idle == [kind |-> "none", channel |-> None, at |-> "idle", creds |-> None,
         seen |-> EmptyBook, day |-> 1]
Task == {Idle} \cup
  [kind : Kinds, channel : Channels, at : Steps, creds : Token \cup {None},
   seen : Book, day : Days]

TypeOK ==
  /\ token \in [Channels -> Token \cup {None}]
  /\ connecting \subseteq Channels
  /\ task \in [Tasks -> Task]
  /\ quota \in Book
  /\ today \in Days
  /\ inserted \in [Channels -> 0..MaxInserts]
  /\ landed \subseteq Channels \X Accounts
  /\ legacy \in [Channels -> Accounts \cup {None}]

\* A workspace may hold tokens from before authorize() compared the accounts.
Init ==
  /\ legacy \in [Channels -> Accounts \cup {None}]
  /\ token = [c \in Channels |->
       IF legacy[c] = None THEN None ELSE [owner |-> legacy[c], fresh |-> FALSE]]
  /\ connecting = {}
  /\ task = [t \in Tasks |-> Idle]
  /\ quota = EmptyBook
  /\ today = 1
  /\ inserted = [c \in Channels |-> 0]
  /\ landed = {}

At(t, step) == task[t].at = step
Goes(t, step) == task' = [task EXCEPT ![t].at = step]

\* Faulty variant: the guard is only given back by a connect that stored something.
EndsKeepingFailedGuards(t) ==
  /\ task' = [task EXCEPT ![t] = Idle]
  /\ connecting' = IF task[t].at = "store" THEN connecting \ {task[t].channel} ELSE connecting

\* The thread ends; a connect gives its channel back in its finally.
Ends(t) ==
  /\ task' = [task EXCEPT ![t] = Idle]
  /\ connecting' = IF task[t].kind = "connect"
                   THEN connecting \ {task[t].channel} ELSE connecting

----------------------------------------------------------------------------
(* Starting *)

Starts(t, kind, c, step) ==
  /\ At(t, "idle")
  /\ task' = [task EXCEPT ![t] =
       [Idle EXCEPT !.kind = kind, !.channel = c, !.at = step]]
  /\ UNCHANGED <<token, fileVars>>

\* Faulty variant: two connects of one channel may be under way at once.
StartConnectUnguarded(t, c, force) ==
  /\ connecting' = connecting \cup {c}
  /\ Starts(t, "connect", c, IF force THEN "consent" ELSE "load")

\* post_connect and start_connect_job; force skips the stored token.
StartConnect(t, c, force) ==
  /\ c \notin connecting
  /\ connecting' = connecting \cup {c}
  /\ Starts(t, "connect", c, IF force THEN "consent" ELSE "load")

\* cmd_auth, get_auth and get_settings, and an upload thread: no guard.
StartUnguarded(t, kind, c) ==
  /\ kind \in {"auth", "view", "upload"}
  /\ UNCHANGED connecting
  /\ Starts(t, kind, c, "load")

----------------------------------------------------------------------------
(* load_credentials *)

\* The caller goes on with what load_credentials returned.
Loaded(t, creds) ==
  \/ task[t].kind = "upload" /\ creds # None
     /\ task' = [task EXCEPT ![t].at = "insert", ![t].creds = creds]
     /\ UNCHANGED connecting
  \/ task[t].kind \in {"connect", "auth"} /\ creds = None
     /\ Goes(t, "consent")
     /\ UNCHANGED connecting
  \/ /\ \/ task[t].kind = "view"
        \/ task[t].kind = "upload" /\ creds = None
        \/ task[t].kind \in {"connect", "auth"} /\ creds # None
     /\ Ends(t)

Load(t) ==
  LET stored == token[task[t].channel] IN
  /\ At(t, "load")
  /\ IF stored = None \/ stored.fresh
     THEN Loaded(t, stored)
     ELSE /\ task' = [task EXCEPT ![t].at = "refresh", ![t].creds = stored]
          /\ UNCHANGED connecting
  /\ UNCHANGED <<token, fileVars>>

\* ensure_fresh: without a refresh token the credentials stay what they were.
Refresh(t) ==
  /\ At(t, "refresh")
  /\ \E fresh \in BOOLEAN :
       task' = [task EXCEPT ![t].at = "save", ![t].creds.fresh = fresh]
  /\ UNCHANGED <<token, connecting, fileVars>>

SaveRefreshed(t) ==
  /\ At(t, "save")
  /\ token' = [token EXCEPT ![task[t].channel] = task[t].creds]
  /\ Loaded(t, task[t].creds)
  /\ UNCHANGED fileVars

----------------------------------------------------------------------------
(* authorize, past the stored token *)

Consent(t) ==
  /\ At(t, "consent")
  /\ \E a \in Accounts :
       task' = [task EXCEPT ![t].at = "verify", ![t].creds = [owner |-> a, fresh |-> TRUE]]
  /\ UNCHANGED <<token, connecting, fileVars>>

\* Faulty variant: whatever account was picked is stored for the channel.
VerifyNothing(t) ==
  /\ At(t, "verify")
  /\ Goes(t, "store")
  /\ UNCHANGED <<token, connecting, fileVars>>

\* The account that was granted must be the channel asked for.
Verify(t) ==
  /\ At(t, "verify")
  /\ IF task[t].creds.owner = task[t].channel
     THEN Goes(t, "store") /\ UNCHANGED connecting
     ELSE Ends(t)
  /\ UNCHANGED <<token, fileVars>>

Store(t) ==
  /\ At(t, "store")
  /\ token' = [token EXCEPT ![task[t].channel] = task[t].creds]
  /\ Ends(t)
  /\ UNCHANGED fileVars

----------------------------------------------------------------------------
(* An upload *)

\* Faulty variant: an insert that YouTube refused is booked all the same.
InsertSwallowingErrors(t) ==
  LET c == task[t].channel IN
  /\ At(t, "insert")
  /\ inserted[c] < MaxInserts
  /\ inserted' \in {inserted, [inserted EXCEPT ![c] = @ + 1]}
  /\ landed' = landed \cup {<<c, task[t].creds.owner>>}
  /\ Goes(t, "quota")
  /\ UNCHANGED <<token, connecting, quota, today, legacy>>

\* videos().insert: the video lands on the account of the credentials.
Insert(t) ==
  LET c == task[t].channel IN
  /\ At(t, "insert")
  /\ inserted[c] < MaxInserts
  /\ inserted' = [inserted EXCEPT ![c] = @ + 1]
  /\ landed' = landed \cup {<<c, task[t].creds.owner>>}
  /\ Goes(t, "quota")
  /\ UNCHANGED <<token, connecting, quota, today, legacy>>

\* book_insert reads the whole file; a file it cannot read counts as empty.
ReadQuota(t) ==
  /\ At(t, "quota")
  /\ \E seen \in {quota, EmptyBook} :
       task' = [task EXCEPT ![t].at = "book", ![t].seen = seen, ![t].day = today]
  /\ UNCHANGED <<token, connecting, fileVars>>

\* ... and writes the whole file back with one more insert for its day.
BookInsert(t) ==
  /\ At(t, "book")
  /\ quota' = [task[t].seen EXCEPT ![task[t].channel][task[t].day] = @ + 1]
  /\ Ends(t)
  /\ UNCHANGED <<token, today, inserted, landed, legacy>>

----------------------------------------------------------------------------
(* What can go wrong, and the world *)

\* An exception: the token is not readable as credentials, the refresh or the
\* insert is refused, the consent times out or is for no channel, a write fails.
Fails(t) ==
  /\ ~At(t, "idle")
  /\ Ends(t)
  /\ UNCHANGED <<token, fileVars>>

\* disconnect_auth; 404 where there is no token.
Disconnect(c) ==
  /\ token[c] # None
  /\ token' = [token EXCEPT ![c] = None]
  /\ UNCHANGED <<connecting, task, fileVars>>

Expires(c) ==
  /\ token[c] # None
  /\ token[c].fresh
  /\ token' = [token EXCEPT ![c].fresh = FALSE]
  /\ UNCHANGED <<connecting, task, fileVars>>

NextDay ==
  /\ today < MaxDay
  /\ today' = today + 1
  /\ UNCHANGED <<token, connecting, task, quota, inserted, landed, legacy>>

\* The studio dies and starts again: its threads and its guards are gone.
Restart ==
  /\ \E t \in Tasks : task[t].kind \in Kinds \ {"auth"}
  /\ task' = [t \in Tasks |-> IF task[t].kind = "auth" THEN task[t] ELSE Idle]
  /\ connecting' = {}
  /\ UNCHANGED <<token, fileVars>>

----------------------------------------------------------------------------
Works(t) ==
  \/ Load(t) \/ Refresh(t) \/ SaveRefreshed(t)
  \/ Consent(t) \/ Verify(t) \/ Store(t)
  \/ Insert(t) \/ ReadQuota(t) \/ BookInsert(t)
  \/ Fails(t)

Next ==
  \/ \E t \in Tasks :
       \/ Works(t)
       \/ \E c \in Channels :
            \/ \E force \in BOOLEAN : StartConnect(t, c, force)
            \/ \E kind \in Kinds : StartUnguarded(t, kind, c)
  \/ \E c \in Channels : Disconnect(c) \/ Expires(c)
  \/ NextDay \/ Restart

Spec == Init /\ [][Next]_vars
\* Every call a task waits in is bounded: the consent by CONSENT_TIMEOUT_SECONDS.
FairSpec == Spec /\ \A t \in Tasks : WF_vars(Works(t))

----------------------------------------------------------------------------
(* What must hold *)

ConnectsOf(c) == {t \in Tasks : task[t].kind = "connect" /\ task[t].channel = c}

\* At most one connect per channel is under way, and the guard is held for
\* exactly the channels that have one, whatever fails or is restarted
\* (begin_connect, end_connect).
ConnectGuardIsExact ==
  \A c \in Channels :
    Cardinality(ConnectsOf(c)) = (IF c \in connecting THEN 1 ELSE 0)

\* Every video goes to the channel it was uploaded for, unless the token is
\* one from before authorize() compared the accounts: whoever consents to
\* what, and however refreshes, connects and uploads interleave.
UploadsLandOnTheirChannel ==
  \A p \in landed : p[2] \in {p[1], legacy[p[1]]}

\* The tasks of a channel that inserted a video they have not booked yet.
Unbooked(c) ==
  {t \in Tasks : task[t].channel = c /\ task[t].at \in {"quota", "book"}}
\* What a channel's line of the book counts, one entry for each upload of a day.
Entries(counts) == UNION {{d} \X (1..counts[d]) : d \in Days}
Booked(c) == Cardinality(Entries(quota[c]))

\* The estimate may miss inserts (bookings that overlap, a file that could
\* not be read) but never counts one that was not made: the studio never
\* says that fewer uploads are left than there are (book_insert).
QuotaNeverOverstates ==
  \A c \in Channels : Booked(c) <= inserted[c] - Cardinality(Unbooked(c))

\* A connect ends and its channel can be connected again, also when the
\* operator never finishes the sign-in (run_consent, start_connect_job).
ConnectsEnd ==
  \A c \in Channels : c \in connecting ~> c \notin connecting
=============================================================================
