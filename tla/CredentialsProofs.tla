--------------------------- MODULE CredentialsProofs ---------------------------
(***************************************************************************)
(* Proofs about Credentials: the connect guard is held for exactly the    *)
(* channels that have a connect under way, and every video lands on the   *)
(* channel it was uploaded for, for any channels, accounts and threads.   *)
(***************************************************************************)
EXTENDS Credentials, FiniteSetTheorems, TLAPS

\* The books the bookings compute with, whatever they count to.
AnyBook == [Channels -> [Days -> Nat]]

TaskShape ==
  [kind : Kinds \cup {"none"}, channel : Channels \cup {None},
   at : Steps \cup {"idle"}, creds : Token \cup {None}, seen : AnyBook, day : Days]

Shapes ==
  /\ token \in [Channels -> Token \cup {None}]
  /\ connecting \subseteq Channels
  /\ task \in [Tasks -> TaskShape]
  /\ quota \in AnyBook
  /\ today \in Days
  /\ landed \subseteq Channels \X Accounts
  /\ legacy \in [Channels -> Accounts \cup {None}]

\* A thread that is not idle has a kind and a channel.
Named ==
  \A t \in Tasks :
    /\ task[t].at = "idle" <=> task[t].kind = "none"
    /\ task[t].kind # "none" => task[t].channel \in Channels

Connects(t, c) == task[t].kind = "connect" /\ task[t].channel = c

GuardsMatch ==
  \A c \in Channels : c \in connecting <=> \E t \in Tasks : Connects(t, c)

OneConnectPerChannel ==
  \A c \in Channels : \A t, u \in Tasks :
    Connects(t, c) /\ Connects(u, c) => t = u

Guards == GuardsMatch /\ OneConnectPerChannel

\* The accounts that may get what is uploaded for a channel.
Trusted(c) == {c, legacy[c]}

TrustedTokens == \A c \in Channels : token[c] # None => token[c].owner \in Trusted(c)

\* The steps that hold a credential, all but the one that still verifies it.
Holding == {"refresh", "save", "store", "insert"}

TrustedTasks ==
  \A t \in Tasks :
    /\ task[t].at \in Holding \cup {"verify"} => task[t].creds \in Token
    /\ task[t].at \in Holding => task[t].creds.owner \in Trusted(task[t].channel)

IInv ==
  /\ Shapes /\ Named /\ Guards
  /\ TrustedTokens /\ TrustedTasks /\ UploadsLandOnTheirChannel

----------------------------------------------------------------------------
(* The guard *)

\* A thread that goes on with the kind and the channel it has moves no guard.
LEMMA GoingOnKeepsGuards ==
  ASSUME Guards, UNCHANGED connecting,
         \A u \in Tasks : /\ task'[u].kind = task[u].kind
                          /\ task'[u].channel = task[u].channel
  PROVE  Guards'
BY DEF Guards, GuardsMatch, OneConnectPerChannel, Connects

\* An idle thread is one of the shapes a thread has.
LEMMA IdleIsATask == Idle \in TaskShape
<1>1. EmptyBook \in AnyBook
  BY DEF EmptyBook, AnyBook
<1>2. 1 \in Days
  BY CredentialsAssumption DEF Days
<1> QED BY <1>1, <1>2 DEF Idle, TaskShape

\* A thread that ends is idle, and the others are as they were.
LEMMA EndsMakesIdle ==
  ASSUME Shapes, NEW t \in Tasks, Ends(t)
  PROVE  /\ task' \in [Tasks -> TaskShape]
         /\ connecting' \subseteq Channels
         /\ task'[t] = Idle
         /\ \A u \in Tasks \ {t} : task'[u] = task[u]
BY IdleIsATask DEF Ends, Shapes

\* What an ending thread leaves of the invariant: everything about the threads,
\* the guard included, which a connect gives back in its finally (end_connect).
LEMMA EndsKeepsThreads ==
  ASSUME IInv, NEW t \in Tasks, Ends(t), UNCHANGED legacy
  PROVE  /\ task' \in [Tasks -> TaskShape] /\ connecting' \subseteq Channels
         /\ Named' /\ Guards' /\ TrustedTasks'
<1>1. /\ task' \in [Tasks -> TaskShape] /\ connecting' \subseteq Channels
      /\ task'[t] = Idle
      /\ \A u \in Tasks \ {t} : task'[u] = task[u]
  BY EndsMakesIdle DEF IInv
<1>2. Named'
  BY <1>1 DEF Named, IInv, Idle
<1>3. TrustedTasks'
  BY <1>1 DEF TrustedTasks, IInv, Idle, Holding, Trusted
<1>4. Guards'
  <2>1. CASE task[t].kind = "connect"
    <3>1. connecting' = connecting \ {task[t].channel}
      BY <2>1 DEF Ends
    <3>2. \A u \in Tasks : task'[u].kind = "connect" => u # t
      BY <1>1 DEF Idle
    <3> QED
      BY <2>1, <3>1, <3>2, <1>1 DEF IInv, Guards, GuardsMatch, OneConnectPerChannel, Connects
  <2>2. CASE task[t].kind # "connect"
    <3>1. connecting' = connecting
      BY <2>2 DEF Ends
    <3> QED
      BY <2>2, <3>1, <1>1 DEF IInv, Guards, GuardsMatch, OneConnectPerChannel, Connects, Idle
  <2> QED BY <2>1, <2>2
<1> QED BY <1>1, <1>2, <1>3, <1>4

----------------------------------------------------------------------------
(* Each action *)

\* A thread that starts: a connect takes its channel, which no connect had.
LEMMA StartKeepsInv ==
  ASSUME IInv, NEW t \in Tasks, NEW c \in Channels, NEW kind \in Kinds,
         NEW step \in {"load", "consent"}, Starts(t, kind, c, step),
         \/ kind = "connect" /\ c \notin connecting /\ connecting' = connecting \cup {c}
         \/ kind # "connect" /\ UNCHANGED connecting
  PROVE  IInv'
<1> DEFINE new == [Idle EXCEPT !.kind = kind, !.channel = c, !.at = step]
<1>1. /\ new \in TaskShape
      /\ new.kind = kind /\ new.channel = c /\ new.at = step
  BY IdleIsATask DEF TaskShape, Steps
<1> HIDE DEF new
<1>2. /\ task' \in [Tasks -> TaskShape] /\ task'[t] = new
      /\ \A u \in Tasks \ {t} : task'[u] = task[u]
  BY <1>1 DEF Starts, IInv, Shapes, new
<1>3. task[t].kind = "none"
  BY DEF Starts, At, IInv, Named
<1>4. UNCHANGED <<token, fileVars>>
  BY DEF Starts
<1>5. Shapes'
  BY <1>2, <1>4 DEF IInv, Shapes, fileVars
<1>6. Named'
  BY <1>1, <1>2 DEF IInv, Named, Kinds
<1>7. Guards'
  BY <1>1, <1>2, <1>3 DEF IInv, Guards, GuardsMatch, OneConnectPerChannel, Connects
<1>8. TrustedTokens' /\ UploadsLandOnTheirChannel'
  BY <1>4 DEF IInv, TrustedTokens, UploadsLandOnTheirChannel, Trusted, fileVars
<1>9. TrustedTasks'
  BY <1>1, <1>2, <1>4 DEF IInv, TrustedTasks, Holding, Trusted, fileVars
<1> QED BY <1>5, <1>6, <1>7, <1>8, <1>9 DEF IInv

\* A thread that goes on with a credential that is trusted where it holds one.
LEMMA GoingOnKeepsThreads ==
  ASSUME IInv, NEW t \in Tasks, task[t].at # "idle",
         NEW new \in TaskShape, task' = [task EXCEPT ![t] = new],
         new.kind = task[t].kind, new.channel = task[t].channel, new.at # "idle",
         new.at \in Holding \cup {"verify"} => new.creds \in Token,
         new.at \in Holding => new.creds.owner \in Trusted(new.channel),
         UNCHANGED <<connecting, legacy>>
  PROVE  /\ task' \in [Tasks -> TaskShape] /\ connecting' \subseteq Channels
         /\ Named' /\ Guards' /\ TrustedTasks'
<1>1. /\ task' \in [Tasks -> TaskShape] /\ task'[t] = new
      /\ \A u \in Tasks \ {t} : task'[u] = task[u]
  BY DEF IInv, Shapes
<1>2. Named'
  BY <1>1 DEF IInv, Named
<1>3. Guards'
  BY <1>1, GoingOnKeepsGuards DEF IInv
<1>4. TrustedTasks'
  BY DEF IInv, TrustedTasks, Trusted
<1> QED BY <1>2, <1>3, <1>4 DEF IInv, Shapes

\* What the threads' lemmas leave to show of the invariant when no video lands.
LEMMA ThreadsThenInv ==
  ASSUME IInv,
         task' \in [Tasks -> TaskShape], connecting' \subseteq Channels,
         Named', Guards', TrustedTasks',
         token' \in [Channels -> Token \cup {None}], TrustedTokens',
         quota' \in AnyBook, today' \in Days, UNCHANGED <<landed, legacy>>
  PROVE  IInv'
BY DEF IInv, Shapes, UploadsLandOnTheirChannel

\* The caller of load_credentials, when a trusted credential (or none) came back.
LEMMA LoadedKeepsThreads ==
  ASSUME IInv, NEW t \in Tasks, task[t].at # "idle", NEW creds \in Token \cup {None},
         creds # None => creds.owner \in Trusted(task[t].channel),
         Loaded(t, creds), UNCHANGED legacy
  PROVE  /\ task' \in [Tasks -> TaskShape] /\ connecting' \subseteq Channels
         /\ Named' /\ Guards' /\ TrustedTasks'
<1>0. task[t] \in TaskShape
  BY DEF IInv, Shapes
<1>1. CASE task[t].kind = "upload" /\ creds # None
           /\ task' = [task EXCEPT ![t].at = "insert", ![t].creds = creds]
           /\ UNCHANGED connecting
  <2> DEFINE new == [task[t] EXCEPT !.at = "insert", !.creds = creds]
  <2>1. /\ new \in TaskShape /\ new.kind = task[t].kind
        /\ new.channel = task[t].channel /\ new.at = "insert" /\ new.creds = creds
    BY <1>0 DEF TaskShape, Steps
  <2>2. task' = [task EXCEPT ![t] = new]
    BY <1>1 DEF IInv, Shapes
  <2> HIDE DEF new
  <2> QED BY <1>1, <2>1, <2>2, GoingOnKeepsThreads
<1>2. CASE Goes(t, "consent") /\ UNCHANGED connecting
  <2> DEFINE new == [task[t] EXCEPT !.at = "consent"]
  <2>1. /\ new \in TaskShape /\ new.kind = task[t].kind
        /\ new.channel = task[t].channel /\ new.at = "consent"
    BY <1>0 DEF TaskShape, Steps
  <2>2. task' = [task EXCEPT ![t] = new]
    BY <1>2 DEF Goes
  <2> HIDE DEF new
  <2> QED BY <1>2, <2>1, <2>2, GoingOnKeepsThreads DEF Holding
<1>3. CASE Ends(t)
  BY <1>3, EndsKeepsThreads
<1> QED BY <1>1, <1>2, <1>3 DEF Loaded

\* load_credentials finds nothing, a valid token or one to refresh.
LEMMA LoadKeepsInv ==
  ASSUME IInv, NEW t \in Tasks, Load(t)
  PROVE  IInv'
<1> DEFINE stored == token[task[t].channel]
<1>0. task[t] \in TaskShape /\ task[t].at = "load" /\ task[t].channel \in Channels
  BY DEF IInv, Shapes, Named, Load, At
<1>1. stored \in Token \cup {None} /\ (stored # None => stored.owner \in Trusted(task[t].channel))
  BY <1>0 DEF IInv, Shapes, TrustedTokens
<1>2. UNCHANGED <<token, fileVars>>
  BY DEF Load
<1>3. /\ task' \in [Tasks -> TaskShape] /\ connecting' \subseteq Channels
      /\ Named' /\ Guards' /\ TrustedTasks'
  <2>1. CASE Loaded(t, stored)
    <3> HIDE DEF stored
    <3> QED BY <2>1, <1>0, <1>1, <1>2, LoadedKeepsThreads DEF fileVars
  <2>2. CASE /\ stored # None
             /\ task' = [task EXCEPT ![t].at = "refresh", ![t].creds = stored]
             /\ UNCHANGED connecting
    <3> HIDE DEF stored
    <3> DEFINE new == [task[t] EXCEPT !.at = "refresh", !.creds = stored]
    <3>1. /\ new \in TaskShape /\ new.kind = task[t].kind
          /\ new.channel = task[t].channel /\ new.at = "refresh" /\ new.creds = stored
      BY <1>0, <1>1 DEF TaskShape, Steps
    <3>2. task' = [task EXCEPT ![t] = new]
      BY <2>2 DEF IInv, Shapes
    <3> HIDE DEF new
    <3> QED BY <1>0, <1>1, <1>2, <2>2, <3>1, <3>2, GoingOnKeepsThreads DEF fileVars
  <2> QED BY <2>1, <2>2 DEF Load
<1> QED BY <1>2, <1>3, ThreadsThenInv DEF IInv, Shapes, TrustedTokens, Trusted, fileVars

\* A refresh changes whether a token is valid, never whose it is.
LEMMA RefreshKeepsInv ==
  ASSUME IInv, NEW t \in Tasks, Refresh(t)
  PROVE  IInv'
<1>0. task[t] \in TaskShape /\ task[t].at = "refresh" /\ task[t].creds \in Token
      /\ task[t].creds.owner \in Trusted(task[t].channel)
  BY DEF IInv, Shapes, TrustedTasks, Holding, Refresh, At
<1>1. PICK fresh \in BOOLEAN :
        task' = [task EXCEPT ![t].at = "save", ![t].creds.fresh = fresh]
  BY DEF Refresh
<1>2. UNCHANGED <<token, connecting, fileVars>>
  BY DEF Refresh
<1> DEFINE new == [task[t] EXCEPT !.at = "save", !.creds = [task[t].creds EXCEPT !.fresh = fresh]]
<1>3. /\ new \in TaskShape /\ new.kind = task[t].kind /\ new.channel = task[t].channel
      /\ new.at = "save" /\ new.creds \in Token /\ new.creds.owner = task[t].creds.owner
  BY <1>0 DEF TaskShape, Steps, Token
<1>4. task' = [task EXCEPT ![t] = new]
  BY <1>1
<1> HIDE DEF new
<1>5. /\ task' \in [Tasks -> TaskShape] /\ connecting' \subseteq Channels
      /\ Named' /\ Guards' /\ TrustedTasks'
  BY <1>0, <1>2, <1>3, <1>4, GoingOnKeepsThreads DEF fileVars
<1> QED BY <1>2, <1>5, ThreadsThenInv DEF IInv, Shapes, TrustedTokens, Trusted, fileVars

\* The refreshed token is one of an account its channel trusts.
LEMMA SaveRefreshedKeepsInv ==
  ASSUME IInv, NEW t \in Tasks, SaveRefreshed(t)
  PROVE  IInv'
<1>0. task[t].at = "save" /\ task[t].creds \in Token /\ task[t].channel \in Channels
      /\ task[t].creds.owner \in Trusted(task[t].channel)
  BY DEF IInv, Named, TrustedTasks, Holding, SaveRefreshed, At
<1>1. UNCHANGED fileVars /\ token' = [token EXCEPT ![task[t].channel] = task[t].creds]
  BY DEF SaveRefreshed
<1>2. /\ task' \in [Tasks -> TaskShape] /\ connecting' \subseteq Channels
      /\ Named' /\ Guards' /\ TrustedTasks'
  BY <1>0, LoadedKeepsThreads DEF SaveRefreshed, fileVars
<1>3. token' \in [Channels -> Token \cup {None}] /\ TrustedTokens'
  BY <1>0, <1>1 DEF IInv, Shapes, TrustedTokens, Trusted, fileVars
<1> QED BY <1>1, <1>2, <1>3, ThreadsThenInv DEF IInv, Shapes, fileVars

\* The consent may be for any account: the thread goes on to verify it.
LEMMA ConsentKeepsInv ==
  ASSUME IInv, NEW t \in Tasks, Consent(t)
  PROVE  IInv'
<1>0. task[t] \in TaskShape /\ task[t].at = "consent"
  BY DEF IInv, Shapes, Consent, At
<1>1. PICK a \in Accounts :
        task' = [task EXCEPT ![t].at = "verify", ![t].creds = [owner |-> a, fresh |-> TRUE]]
  BY DEF Consent
<1>2. UNCHANGED <<token, connecting, fileVars>>
  BY DEF Consent
<1> DEFINE new == [task[t] EXCEPT !.at = "verify", !.creds = [owner |-> a, fresh |-> TRUE]]
<1>3. /\ new \in TaskShape /\ new.kind = task[t].kind /\ new.channel = task[t].channel
      /\ new.at = "verify" /\ new.creds \in Token
  BY <1>0 DEF TaskShape, Steps, Token
<1>4. task' = [task EXCEPT ![t] = new]
  BY <1>1
<1> HIDE DEF new
<1>5. /\ task' \in [Tasks -> TaskShape] /\ connecting' \subseteq Channels
      /\ Named' /\ Guards' /\ TrustedTasks'
  BY <1>0, <1>2, <1>3, <1>4, GoingOnKeepsThreads DEF fileVars, Holding
<1> QED BY <1>2, <1>5, ThreadsThenInv DEF IInv, Shapes, TrustedTokens, Trusted, fileVars

\* Only an account that is the channel asked for becomes one the thread stores.
LEMMA VerifyKeepsInv ==
  ASSUME IInv, NEW t \in Tasks, Verify(t)
  PROVE  IInv'
<1>0. task[t] \in TaskShape /\ task[t].at = "verify" /\ task[t].creds \in Token
  BY DEF IInv, Shapes, TrustedTasks, Verify, At
<1>1. UNCHANGED <<token, fileVars>>
  BY DEF Verify
<1>2. /\ task' \in [Tasks -> TaskShape] /\ connecting' \subseteq Channels
      /\ Named' /\ Guards' /\ TrustedTasks'
  <2>1. CASE task[t].creds.owner = task[t].channel /\ Goes(t, "store") /\ UNCHANGED connecting
    <3> DEFINE new == [task[t] EXCEPT !.at = "store"]
    <3>1. /\ new \in TaskShape /\ new.kind = task[t].kind /\ new.channel = task[t].channel
          /\ new.at = "store" /\ new.creds = task[t].creds
      BY <1>0 DEF TaskShape, Steps
    <3>2. task' = [task EXCEPT ![t] = new]
      BY <2>1 DEF Goes
    <3> HIDE DEF new
    <3> QED BY <1>0, <1>1, <2>1, <3>1, <3>2, GoingOnKeepsThreads DEF fileVars, Trusted
  <2>2. CASE Ends(t)
    BY <1>1, <2>2, EndsKeepsThreads DEF fileVars
  <2> QED BY <2>1, <2>2 DEF Verify
<1> QED BY <1>1, <1>2, ThreadsThenInv DEF IInv, Shapes, TrustedTokens, Trusted, fileVars

\* What is stored after a consent is an account its channel trusts.
LEMMA StoreKeepsInv ==
  ASSUME IInv, NEW t \in Tasks, Store(t)
  PROVE  IInv'
<1>0. task[t].at = "store" /\ task[t].creds \in Token /\ task[t].channel \in Channels
      /\ task[t].creds.owner \in Trusted(task[t].channel)
  BY DEF IInv, Named, TrustedTasks, Holding, Store, At
<1>1. UNCHANGED fileVars /\ token' = [token EXCEPT ![task[t].channel] = task[t].creds]
  BY DEF Store
<1>2. /\ task' \in [Tasks -> TaskShape] /\ connecting' \subseteq Channels
      /\ Named' /\ Guards' /\ TrustedTasks'
  BY EndsKeepsThreads DEF Store, fileVars
<1>3. token' \in [Channels -> Token \cup {None}] /\ TrustedTokens'
  BY <1>0, <1>1 DEF IInv, Shapes, TrustedTokens, Trusted, fileVars
<1> QED BY <1>1, <1>2, <1>3, ThreadsThenInv DEF IInv, Shapes, fileVars

\* The one step that lands a video: the credential it holds is a trusted one.
LEMMA InsertKeepsInv ==
  ASSUME IInv, NEW t \in Tasks, Insert(t)
  PROVE  IInv'
<1>0. task[t] \in TaskShape /\ task[t].at = "insert" /\ task[t].creds \in Token
      /\ task[t].channel \in Channels /\ task[t].creds.owner \in Trusted(task[t].channel)
  BY DEF IInv, Shapes, Named, TrustedTasks, Holding, Insert, At
<1>1. /\ UNCHANGED <<token, connecting, quota, today, legacy>>
      /\ landed' = landed \cup {<<task[t].channel, task[t].creds.owner>>}
      /\ Goes(t, "quota")
  BY DEF Insert
<1> DEFINE new == [task[t] EXCEPT !.at = "quota"]
<1>2. /\ new \in TaskShape /\ new.kind = task[t].kind
      /\ new.channel = task[t].channel /\ new.at = "quota"
  BY <1>0 DEF TaskShape, Steps
<1>3. task' = [task EXCEPT ![t] = new]
  BY <1>1 DEF Goes
<1> HIDE DEF new
<1>4. /\ task' \in [Tasks -> TaskShape] /\ connecting' \subseteq Channels
      /\ Named' /\ Guards' /\ TrustedTasks'
  BY <1>0, <1>1, <1>2, <1>3, GoingOnKeepsThreads DEF Holding
<1>5. landed' \subseteq Channels \X Accounts
  BY <1>0, <1>1 DEF IInv, Shapes, Token
<1>6. UploadsLandOnTheirChannel'
  BY <1>0, <1>1 DEF IInv, UploadsLandOnTheirChannel, Trusted
<1> QED BY <1>1, <1>4, <1>5, <1>6 DEF IInv, Shapes, TrustedTokens, Trusted

\* book_insert reads the counts.
LEMMA ReadQuotaKeepsInv ==
  ASSUME IInv, NEW t \in Tasks, ReadQuota(t)
  PROVE  IInv'
<1>0. task[t] \in TaskShape /\ task[t].at = "quota"
  BY DEF IInv, Shapes, ReadQuota, At
<1>1. PICK seen \in {quota, EmptyBook} :
        task' = [task EXCEPT ![t].at = "book", ![t].seen = seen, ![t].day = today]
  BY DEF ReadQuota
<1>2. UNCHANGED <<token, connecting, fileVars>>
  BY DEF ReadQuota
<1>3. seen \in AnyBook /\ today \in Days
  BY DEF IInv, Shapes, EmptyBook, AnyBook
<1> DEFINE new == [task[t] EXCEPT !.at = "book", !.seen = seen, !.day = today]
<1>4. /\ new \in TaskShape /\ new.kind = task[t].kind
      /\ new.channel = task[t].channel /\ new.at = "book"
  BY <1>0, <1>3 DEF TaskShape, Steps
<1>5. task' = [task EXCEPT ![t] = new]
  BY <1>1 DEF IInv, Shapes
<1> HIDE DEF new
<1>6. /\ task' \in [Tasks -> TaskShape] /\ connecting' \subseteq Channels
      /\ Named' /\ Guards' /\ TrustedTasks'
  BY <1>0, <1>2, <1>4, <1>5, GoingOnKeepsThreads DEF fileVars, Holding
<1> QED BY <1>2, <1>6, ThreadsThenInv DEF IInv, Shapes, TrustedTokens, Trusted, fileVars

\* ... and writes them back with one more.
LEMMA BookInsertKeepsInv ==
  ASSUME IInv, NEW t \in Tasks, BookInsert(t)
  PROVE  IInv'
<1>0. task[t] \in TaskShape /\ task[t].channel \in Channels
  BY DEF IInv, Shapes, Named, BookInsert, At
<1>1. /\ UNCHANGED <<token, today, inserted, landed, legacy>> /\ Ends(t)
      /\ quota' = [task[t].seen EXCEPT ![task[t].channel][task[t].day] = @ + 1]
  BY DEF BookInsert
<1>2. quota' \in AnyBook
  BY <1>0, <1>1 DEF TaskShape, AnyBook
<1>3. /\ task' \in [Tasks -> TaskShape] /\ connecting' \subseteq Channels
      /\ Named' /\ Guards' /\ TrustedTasks'
  BY <1>1, EndsKeepsThreads
<1> QED BY <1>1, <1>2, <1>3, ThreadsThenInv DEF IInv, Shapes, TrustedTokens, Trusted

\* An exception in any step ends the thread.
LEMMA FailsKeepsInv ==
  ASSUME IInv, NEW t \in Tasks, Fails(t)
  PROVE  IInv'
<1>1. UNCHANGED <<token, fileVars>>
  BY DEF Fails
<1>2. /\ task' \in [Tasks -> TaskShape] /\ connecting' \subseteq Channels
      /\ Named' /\ Guards' /\ TrustedTasks'
  BY EndsKeepsThreads DEF Fails, fileVars
<1> QED BY <1>1, <1>2, ThreadsThenInv DEF IInv, Shapes, TrustedTokens, Trusted, fileVars

\* disconnect_auth, and a token that expires: no account changes.
LEMMA TokenChangesKeepInv ==
  ASSUME IInv, NEW c \in Channels, Disconnect(c) \/ Expires(c)
  PROVE  IInv'
<1>1. UNCHANGED <<connecting, task, fileVars>>
  BY DEF Disconnect, Expires
<1>2. token' \in [Channels -> Token \cup {None}]
  BY DEF IInv, Shapes, Disconnect, Expires, Token
<1>3. \A d \in Channels : token'[d] # None => token[d] # None /\ token'[d].owner = token[d].owner
  BY DEF IInv, Shapes, Disconnect, Expires, Token
<1>4. TrustedTokens'
  BY <1>1, <1>3 DEF IInv, TrustedTokens, Trusted, fileVars
<1>5. Guards' /\ Named' /\ TrustedTasks'
  BY <1>1, GoingOnKeepsGuards DEF IInv, Named, TrustedTasks, Trusted, fileVars
<1> QED BY <1>1, <1>2, <1>4, <1>5, ThreadsThenInv DEF IInv, Shapes, fileVars

\* Midnight where YouTube counts its quota.
LEMMA NextDayKeepsInv ==
  ASSUME IInv, NextDay
  PROVE  IInv'
<1>1. UNCHANGED <<token, connecting, task, quota, inserted, landed, legacy>> /\ today' \in Days
  BY CredentialsAssumption DEF NextDay, IInv, Shapes, Days
<1>2. Guards' /\ Named' /\ TrustedTasks' /\ TrustedTokens'
  BY <1>1, GoingOnKeepsGuards DEF IInv, Named, TrustedTasks, TrustedTokens, Trusted
<1> QED BY <1>1, <1>2, ThreadsThenInv DEF IInv, Shapes

\* The restart ends every connect and empties the guard with them.
LEMMA RestartKeepsInv ==
  ASSUME IInv, Restart
  PROVE  IInv'
<1>1. /\ task' = [t \in Tasks |-> IF task[t].kind = "auth" THEN task[t] ELSE Idle]
      /\ connecting' = {} /\ UNCHANGED <<token, fileVars>>
  BY DEF Restart
<1>2. task' \in [Tasks -> TaskShape]
  BY <1>1, IdleIsATask DEF IInv, Shapes
<1>3. \A t \in Tasks : task'[t] = Idle \/ (task'[t] = task[t] /\ task[t].kind = "auth")
  BY <1>1
<1>4. Named'
  BY <1>3 DEF IInv, Named, Idle
<1>5. Guards'
  BY <1>1 DEF Guards, GuardsMatch, OneConnectPerChannel, Connects, Idle
<1>6. TrustedTasks'
  BY <1>1 DEF IInv, TrustedTasks, Trusted, Holding, Idle, fileVars
<1> QED
  BY <1>1, <1>2, <1>4, <1>5, <1>6, ThreadsThenInv
  DEF IInv, Shapes, TrustedTokens, Trusted, fileVars

----------------------------------------------------------------------------
(* The theorems *)

\* The first state: every token is one of before the first step.
LEMMA InitEstablishesInv == Init => IInv
<1> SUFFICES ASSUME Init PROVE IInv
  OBVIOUS
<1>1. task = [t \in Tasks |-> Idle] /\ connecting = {} /\ landed = {}
  BY DEF Init
<1>2. Shapes
  <2>1. EmptyBook \in AnyBook /\ 1 \in Days
    BY CredentialsAssumption DEF EmptyBook, AnyBook, Days
  <2> QED BY <2>1, IdleIsATask DEF Init, Shapes, Token
<1>3. Named /\ Guards
  BY <1>1 DEF Named, Guards, GuardsMatch, OneConnectPerChannel, Connects, Idle
<1>4. TrustedTokens
  BY DEF Init, TrustedTokens, Trusted
<1>5. TrustedTasks /\ UploadsLandOnTheirChannel
  BY <1>1 DEF TrustedTasks, UploadsLandOnTheirChannel, Holding, Idle
<1> QED BY <1>2, <1>3, <1>4, <1>5 DEF IInv

\* Every step of every thread, of the operator and of the world.
LEMMA NextKeepsInv == IInv /\ [Next]_vars => IInv'
<1> SUFFICES ASSUME IInv, [Next]_vars PROVE IInv'
  OBVIOUS
<1>1. ASSUME NEW t \in Tasks, Works(t) PROVE IInv'
  BY <1>1, LoadKeepsInv, RefreshKeepsInv, SaveRefreshedKeepsInv, ConsentKeepsInv, VerifyKeepsInv,
     StoreKeepsInv, InsertKeepsInv, ReadQuotaKeepsInv, BookInsertKeepsInv, FailsKeepsInv
  DEF Works
<1>2. ASSUME NEW t \in Tasks, NEW c \in Channels, NEW force \in BOOLEAN,
             StartConnect(t, c, force)
      PROVE  IInv'
  BY <1>2, StartKeepsInv DEF StartConnect, Kinds
<1>3. ASSUME NEW t \in Tasks, NEW c \in Channels, NEW kind \in Kinds,
             StartUnguarded(t, kind, c)
      PROVE  IInv'
  BY <1>3, StartKeepsInv DEF StartUnguarded
<1>4. ASSUME NEW c \in Channels, Disconnect(c) \/ Expires(c) PROVE IInv'
  BY <1>4, TokenChangesKeepInv
<1>5. CASE NextDay
  BY <1>5, NextDayKeepsInv
<1>6. CASE Restart
  BY <1>6, RestartKeepsInv
<1>7. CASE UNCHANGED vars
  <2>1. Guards' /\ Named' /\ TrustedTasks' /\ TrustedTokens'
    BY <1>7, GoingOnKeepsGuards DEF IInv, Named, TrustedTasks, TrustedTokens, Trusted, vars
  <2> QED BY <1>7, <2>1, ThreadsThenInv DEF IInv, Shapes, vars
<1> QED BY <1>1, <1>2, <1>3, <1>4, <1>5, <1>6, <1>7 DEF Next

\* The shapes, the guard and the trusted accounts hold in every state, for any
\* number of channels, accounts, threads, inserts and days.
THEOREM CredentialsInvariantHolds == Spec => []IInv
<1> QED BY InitEstablishesInv, NextKeepsInv, PTL DEF Spec

\* Matching guards count: no thread, or the one thread, per channel.
LEMMA GuardsCount == Guards => ConnectGuardIsExact
<1> SUFFICES ASSUME Guards, NEW c \in Channels
             PROVE  Cardinality(ConnectsOf(c)) = (IF c \in connecting THEN 1 ELSE 0)
  BY DEF ConnectGuardIsExact
<1>1. CASE c \in connecting
  <2>1. PICK t \in Tasks : Connects(t, c)
    BY <1>1 DEF Guards, GuardsMatch
  <2>2. ConnectsOf(c) = {t}
    BY <2>1 DEF Guards, OneConnectPerChannel, ConnectsOf, Connects
  <2> QED BY <1>1, <2>2, FS_Singleton
<1>2. CASE c \notin connecting
  <2>1. ConnectsOf(c) = {}
    BY <1>2 DEF Guards, GuardsMatch, ConnectsOf, Connects
  <2> QED BY <1>2, <2>1, FS_EmptySet
<1> QED BY <1>1, <1>2

\* At most one connect per channel is under way and the guard is held for just
\* those channels, in every behaviour: no failure and no restart leaves a
\* channel that can never be connected again (begin_connect, end_connect).
THEOREM ConnectGuardIsAlwaysExact == Spec => []ConnectGuardIsExact
<1>1. IInv => ConnectGuardIsExact
  BY GuardsCount DEF IInv
<1> QED BY <1>1, CredentialsInvariantHolds, PTL

\* Every video lands on the channel it was uploaded for, or on the account of
\* a token from before authorize() compared the accounts, in every behaviour.
THEOREM UploadsAlwaysLandOnTheirChannel == Spec => []UploadsLandOnTheirChannel
<1>1. IInv => UploadsLandOnTheirChannel
  BY DEF IInv
<1> QED BY <1>1, CredentialsInvariantHolds, PTL

----------------------------------------------------------------------------
(* The local count *)

\* How far a channel's uploads are ahead of the threads that still have to book
\* theirs: no step takes it back, so a book that stayed within it stays within.
Margin(c) == inserted[c] - Cardinality(Unbooked(c))

Within(counts, c) ==
  IsFiniteSet(Entries(counts)) /\ Cardinality(Entries(counts)) <= Margin(c)

\* Not only the file: also what a thread has read of it and will write back.
CountsInv ==
  /\ inserted \in [Channels -> Int]
  /\ \A c \in Channels :
       /\ IsFiniteSet(Unbooked(c))
       /\ Within(quota[c], c)
       /\ \A t \in Tasks : task[t].at = "book" => Within(task[t].seen[c], c)

\* A line without an upload has no entry.
LEMMA NoEntries ==
  ASSUME NEW c \in Channels, CountsInv
  PROVE  Entries(EmptyBook[c]) = {} /\ Within(EmptyBook[c], c)
<1>1. Entries(EmptyBook[c]) = {}
  BY DEF Entries, EmptyBook
<1>2. 0 <= Margin(c)
  <2>1. /\ IsFiniteSet(Entries(quota[c])) /\ Cardinality(Entries(quota[c])) <= Margin(c)
        /\ Margin(c) \in Int
    BY FS_CardinalityType DEF CountsInv, Within, Margin
  <2> QED BY <2>1, FS_CardinalityType
<1> QED BY <1>1, <1>2, FS_EmptySet DEF Within

\* One more upload on a day is one more entry.
LEMMA OneMoreEntry ==
  ASSUME NEW counts \in [Days -> Nat], NEW d \in Days, IsFiniteSet(Entries(counts))
  PROVE  LET more == [counts EXCEPT ![d] = counts[d] + 1] IN
         /\ IsFiniteSet(Entries(more))
         /\ Cardinality(Entries(more)) = Cardinality(Entries(counts)) + 1
<1> DEFINE more == [counts EXCEPT ![d] = counts[d] + 1]
<1>1. /\ <<d, counts[d] + 1>> \notin Entries(counts)
      /\ Entries(more) = Entries(counts) \cup {<<d, counts[d] + 1>>}
  <2>1. \A e : e \in Entries(counts) <=> \E x \in Days : \E i \in 1..counts[x] : e = <<x, i>>
    BY DEF Entries
  <2>2. \A e : e \in Entries(more) <=> \E x \in Days : \E i \in 1..more[x] : e = <<x, i>>
    BY DEF Entries
  <2>3. more[d] = counts[d] + 1 /\ \A x \in Days \ {d} : more[x] = counts[x]
    OBVIOUS
  <2>4. \A i : i \in 1..more[d] <=> i \in 1..counts[d] \/ i = counts[d] + 1
    BY <2>3
  <2>5. counts[d] + 1 \notin 1..counts[d]
    OBVIOUS
  <2> HIDE DEF more
  <2>6. <<d, counts[d] + 1>> \notin Entries(counts)
    BY <2>1, <2>5
  <2>7. \A e : e \in Entries(more) <=> e \in Entries(counts) \/ e = <<d, counts[d] + 1>>
    BY <2>1, <2>2, <2>3, <2>4
  <2> QED BY <2>6, <2>7
<1> HIDE DEF more
<1>2. /\ IsFiniteSet(Entries(more))
      /\ Cardinality(Entries(more)) = Cardinality(Entries(counts)) + 1
  BY <1>1, FS_AddElement
<1> QED BY <1>2 DEF more

\* A step that inserts and books nothing: whoever ends with a video it has not
\* booked loses the entry for good, and what is read is the file or nothing.
LEMMA LosingKeepsCounts ==
  ASSUME CountsInv, UNCHANGED <<quota, inserted>>,
         \A t \in Tasks : task'[t].at \in {"quota", "book"} =>
            task[t].at \in {"quota", "book"} /\ task'[t].channel = task[t].channel,
         \A t \in Tasks : task'[t].at = "book" =>
            \/ task[t].at = "book" /\ task'[t].seen = task[t].seen
            \/ task'[t].seen \in {quota, EmptyBook}
  PROVE  CountsInv'
<1> SUFFICES ASSUME NEW c \in Channels
             PROVE  /\ IsFiniteSet(Unbooked(c)') /\ Within(quota[c], c)'
                    /\ \A t \in Tasks : task'[t].at = "book" => Within(task[t].seen[c], c)'
  BY DEF CountsInv
<1>1. Unbooked(c)' \subseteq Unbooked(c)
  BY DEF Unbooked
<1>2. /\ IsFiniteSet(Unbooked(c)')
      /\ Margin(c) \in Int /\ Margin(c)' \in Int /\ Margin(c) <= Margin(c)'
  BY <1>1, FS_Subset, FS_CardinalityType DEF CountsInv, Margin
<1>3. \A counts : Within(counts, c) =>
        IsFiniteSet(Entries(counts)) /\ Cardinality(Entries(counts)) <= Margin(c)'
  BY <1>2, FS_CardinalityType DEF Within
<1>4. Within(quota[c], c)'
  BY <1>3 DEF CountsInv, Within, Entries
<1>5. ASSUME NEW t \in Tasks, task'[t].at = "book" PROVE Within(task[t].seen[c], c)'
  <2>1. Within(task'[t].seen[c], c)
    BY <1>5, NoEntries DEF CountsInv
  <2> QED BY <2>1, <1>3 DEF Within, Entries
<1> QED BY <1>2, <1>4, <1>5

\* An insert: one more video, and one more thread that has to book it.
LEMMA InsertKeepsCounts ==
  ASSUME IInv, CountsInv, NEW t \in Tasks, Insert(t)
  PROVE  CountsInv'
<1> DEFINE ch == task[t].channel
<1>1. /\ task[t].at = "insert" /\ ch \in Channels
      /\ task' = [task EXCEPT ![t].at = "quota"] /\ task[t] \in TaskShape
      /\ inserted' = [inserted EXCEPT ![ch] = inserted[ch] + 1] /\ UNCHANGED quota
  BY DEF IInv, Shapes, Named, Insert, At, Goes
<1>2. /\ task'[t].at = "quota" /\ task'[t].channel = ch
      /\ \A u \in Tasks \ {t} : task'[u] = task[u]
  BY <1>1 DEF IInv, Shapes, TaskShape
<1> HIDE DEF ch
<1>3. ASSUME NEW c \in Channels
      PROVE  IsFiniteSet(Unbooked(c)') /\ Margin(c)' = Margin(c)
  <2>1. CASE c = ch
    <3>1. Unbooked(c)' = Unbooked(c) \cup {t} /\ t \notin Unbooked(c)
      BY <1>1, <1>2, <2>1 DEF Unbooked
    <3>2. IsFiniteSet(Unbooked(c)') /\ Cardinality(Unbooked(c)') = Cardinality(Unbooked(c)) + 1
      BY <3>1, FS_AddElement DEF CountsInv
    <3> QED BY <1>1, <2>1, <3>2, FS_CardinalityType DEF CountsInv, Margin
  <2>2. CASE c # ch
    <3>1. Unbooked(c)' = Unbooked(c)
      BY <1>1, <1>2, <2>2 DEF Unbooked, ch
    <3> QED BY <1>1, <2>2, <3>1 DEF CountsInv, Margin
  <2> QED BY <2>1, <2>2
<1>4. inserted' \in [Channels -> Int]
  BY <1>1 DEF CountsInv
<1> QED BY <1>1, <1>2, <1>3, <1>4 DEF CountsInv, Within, Entries

\* A booking writes what the thread had read, with its own video on top: the
\* videos others booked meanwhile are lost, none is counted twice.
LEMMA BookInsertKeepsCounts ==
  ASSUME IInv, CountsInv, NEW t \in Tasks, BookInsert(t)
  PROVE  CountsInv'
<1> DEFINE ch == task[t].channel
           seen == task[t].seen
           day == task[t].day
<1>1. /\ task[t].at = "book" /\ ch \in Channels /\ seen \in AnyBook /\ day \in Days
      /\ quota' = [seen EXCEPT ![ch][day] = seen[ch][day] + 1] /\ UNCHANGED inserted
  BY DEF IInv, Shapes, Named, TaskShape, BookInsert, At
<1>2. task'[t] = Idle /\ \A u \in Tasks \ {t} : task'[u] = task[u]
  BY EndsMakesIdle DEF BookInsert, IInv
<1> HIDE DEF ch, seen, day
<1>3. ASSUME NEW c \in Channels
      PROVE  /\ IsFiniteSet(Unbooked(c)') /\ Margin(c)' \in Int /\ Margin(c) \in Int
             /\ Margin(c)' = IF c = ch THEN Margin(c) + 1 ELSE Margin(c)
  <2>1. CASE c = ch
    <3>1. Unbooked(c)' = Unbooked(c) \ {t} /\ t \in Unbooked(c)
      BY <1>1, <1>2, <2>1 DEF Unbooked, Idle, ch
    <3>2. IsFiniteSet(Unbooked(c)') /\ Cardinality(Unbooked(c)') = Cardinality(Unbooked(c)) - 1
      BY <3>1, FS_RemoveElement DEF CountsInv
    <3> QED BY <1>1, <2>1, <3>2, FS_CardinalityType DEF CountsInv, Margin
  <2>2. CASE c # ch
    <3>1. Unbooked(c)' = Unbooked(c)
      BY <1>2, <2>2 DEF Unbooked, Idle, ch
    <3> QED BY <1>1, <2>2, <3>1, FS_CardinalityType DEF CountsInv, Margin
  <2> QED BY <2>1, <2>2
<1>4. ASSUME NEW c \in Channels
      PROVE  IsFiniteSet(Entries(quota'[c])) /\ Cardinality(Entries(quota'[c])) <= Margin(c)'
  <2>1. IsFiniteSet(Entries(seen[c])) /\ Cardinality(Entries(seen[c])) <= Margin(c)
    BY <1>1 DEF CountsInv, Within, seen
  <2>2. CASE c = ch
    <3>1. seen[c] \in [Days -> Nat] /\ quota'[c] = [seen[c] EXCEPT ![day] = seen[c][day] + 1]
      BY <1>1, <2>2 DEF AnyBook
    <3>2. IsFiniteSet(Entries(quota'[c]))
          /\ Cardinality(Entries(quota'[c])) = Cardinality(Entries(seen[c])) + 1
      BY <1>1, <2>1, <3>1, OneMoreEntry
    <3> QED BY <1>3, <2>1, <2>2, <3>2, FS_CardinalityType
  <2>3. CASE c # ch
    <3>1. quota'[c] = seen[c]
      BY <1>1, <2>3 DEF AnyBook
    <3> QED BY <1>3, <2>1, <2>3, <3>1
  <2> QED BY <2>2, <2>3
<1>5. ASSUME NEW c \in Channels, NEW u \in Tasks, task'[u].at = "book"
      PROVE  IsFiniteSet(Entries(task'[u].seen[c])) /\ Cardinality(Entries(task'[u].seen[c])) <= Margin(c)'
  <2>1. task'[u] = task[u] /\ Within(task[u].seen[c], c)
    BY <1>2, <1>5 DEF Idle, CountsInv
  <2> QED BY <2>1, <1>3, FS_CardinalityType DEF Within
<1> QED BY <1>1, <1>3, <1>4, <1>5 DEF CountsInv, Within, Entries

\* Every other step of a thread leaves the count alone, or ends the thread.
LEMMA WorksKeepsCounts ==
  ASSUME IInv, CountsInv, NEW t \in Tasks, Works(t)
  PROVE  CountsInv'
<1>1. CASE Insert(t)
  BY <1>1, InsertKeepsCounts
<1>2. CASE BookInsert(t)
  BY <1>2, BookInsertKeepsCounts
<1> USE DEF IInv, Shapes
<1>3. task[t] \in TaskShape
  OBVIOUS
<1>4. ASSUME Ends(t), UNCHANGED <<quota, inserted>> PROVE CountsInv'
  BY <1>4, EndsMakesIdle, LosingKeepsCounts DEF Idle
<1>5. ASSUME NEW creds, Loaded(t, creds), UNCHANGED <<quota, inserted>> PROVE CountsInv'
  <2>1. CASE Ends(t)
    BY <1>4, <1>5, <2>1
  <2>2. CASE \/ task' = [task EXCEPT ![t].at = "insert", ![t].creds = creds]
             \/ Goes(t, "consent")
    <3>1. task'[t].at \in {"insert", "consent"} /\ \A u \in Tasks \ {t} : task'[u] = task[u]
      BY <1>3, <2>2 DEF Goes, TaskShape
    <3> QED BY <1>5, <3>1, LosingKeepsCounts
  <2> QED BY <1>5, <2>1, <2>2 DEF Loaded
<1>6. ASSUME NEW step \in {"refresh", "save", "verify", "store"}, task'[t].at = step,
             \A u \in Tasks \ {t} : task'[u] = task[u], UNCHANGED <<quota, inserted>>
      PROVE  CountsInv'
  BY <1>6, LosingKeepsCounts
<1>7. CASE Load(t) \/ SaveRefreshed(t)
  <2>1. UNCHANGED <<quota, inserted>>
    BY <1>7 DEF Load, SaveRefreshed, fileVars
  <2>2. CASE \E creds : Loaded(t, creds)
    BY <1>5, <2>1, <2>2
  <2>3. CASE \E creds : task' = [task EXCEPT ![t].at = "refresh", ![t].creds = creds]
    BY <1>3, <1>6, <2>1, <2>3 DEF TaskShape
  <2> QED BY <1>7, <2>2, <2>3 DEF Load, SaveRefreshed
<1>8. CASE Refresh(t) \/ Consent(t)
  <2>1. UNCHANGED <<quota, inserted>> /\ \A u \in Tasks \ {t} : task'[u] = task[u]
    BY <1>8 DEF Refresh, Consent, fileVars
  <2>2. task'[t].at \in {"save", "verify"}
    BY <1>3, <1>8 DEF Refresh, Consent, TaskShape
  <2> QED BY <1>6, <2>1, <2>2
<1>9. CASE Verify(t)
  <2>1. UNCHANGED <<quota, inserted>>
    BY <1>9 DEF Verify, fileVars
  <2>2. CASE Goes(t, "store")
    BY <1>3, <1>6, <2>1, <2>2 DEF Goes, TaskShape
  <2> QED BY <1>4, <1>9, <2>1, <2>2 DEF Verify
<1>10. CASE Store(t) \/ Fails(t)
  BY <1>4, <1>10 DEF Store, Fails, fileVars
<1>11. CASE ReadQuota(t)
  <2>1. PICK seen \in {quota, EmptyBook} :
          task' = [task EXCEPT ![t].at = "book", ![t].seen = seen, ![t].day = today]
    BY <1>11 DEF ReadQuota
  <2>2. /\ task[t].at = "quota" /\ UNCHANGED <<quota, inserted>>
        /\ task'[t].seen = seen /\ task'[t].channel = task[t].channel
        /\ \A u \in Tasks \ {t} : task'[u] = task[u]
    BY <1>3, <1>11, <2>1 DEF ReadQuota, At, fileVars, TaskShape
  <2> QED BY <2>2, LosingKeepsCounts
<1> QED BY <1>1, <1>2, <1>7, <1>8, <1>9, <1>10, <1>11 DEF Works

\* Starts, the operator, the day and a restart.
LEMMA WorldKeepsCounts ==
  ASSUME IInv, CountsInv, UNCHANGED <<quota, inserted>>,
         \A t \in Tasks : task'[t] = task[t] \/ task'[t].at \in {"load", "consent", "idle"}
  PROVE  CountsInv'
BY LosingKeepsCounts

\* The file and what threads have read of it stay within what was inserted.
LEMMA NextKeepsCounts == IInv /\ CountsInv /\ [Next]_vars => CountsInv'
<1> SUFFICES ASSUME IInv, CountsInv, [Next]_vars PROVE CountsInv'
  OBVIOUS
<1>1. ASSUME NEW t \in Tasks, NEW c \in Channels, NEW kind, NEW step \in {"load", "consent"},
             Starts(t, kind, c, step)
      PROVE  CountsInv'
  <2>1. task'[t].at = step /\ \A u \in Tasks \ {t} : task'[u] = task[u]
    BY <1>1 DEF Starts, Idle, IInv, Shapes
  <2> QED BY <1>1, <2>1, WorldKeepsCounts DEF Starts, fileVars
<1>2. ASSUME NEW t \in Tasks, NEW c \in Channels,
             \/ \E force \in BOOLEAN : StartConnect(t, c, force)
             \/ \E kind \in Kinds : StartUnguarded(t, kind, c)
      PROVE  CountsInv'
  BY <1>1, <1>2 DEF StartConnect, StartUnguarded
<1>3. ASSUME NEW c \in Channels, Disconnect(c) \/ Expires(c) PROVE CountsInv'
  BY <1>3, WorldKeepsCounts DEF Disconnect, Expires, fileVars
<1>4. CASE NextDay \/ Restart \/ UNCHANGED vars
  BY <1>4, WorldKeepsCounts DEF NextDay, Restart, vars, fileVars, Idle
<1> QED BY <1>2, <1>3, <1>4, WorksKeepsCounts DEF Next

\* The local count never claims an insert that was not made, however bookings
\* overlap, threads fail and files cannot be read: what a thread has read of the
\* file stays within what was inserted and booked when it writes it back.
THEOREM QuotaIsNeverOverstated == Spec => []QuotaNeverOverstates
<1>1. Init => CountsInv
  <2> SUFFICES ASSUME Init PROVE CountsInv
    OBVIOUS
  <2>1. \A c \in Channels : Unbooked(c) = {} /\ Entries(quota[c]) = {} /\ inserted[c] = 0
    BY DEF Init, Unbooked, Idle, Entries, EmptyBook
  <2>2. \A t \in Tasks : task[t].at # "book"
    BY DEF Init, Idle
  <2>3. inserted \in [Channels -> Int]
    BY DEF Init
  <2> QED BY <2>1, <2>2, <2>3, FS_EmptySet DEF CountsInv, Within, Margin
<1>2. CountsInv => QuotaNeverOverstates
  BY DEF CountsInv, Within, Margin, QuotaNeverOverstates, Booked
<1> QED BY <1>1, <1>2, NextKeepsCounts, CredentialsInvariantHolds, PTL DEF Spec
=============================================================================
