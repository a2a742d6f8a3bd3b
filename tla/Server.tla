------------------------------- MODULE Server --------------------------------
(***************************************************************************)
(* The life of the process: configuration, database, migrations, serving,  *)
(* the shutdown a signal asks for; create-user beside it; and a request on *)
(* its way through CORS, authentication and a handler (getUser, for one).  *)
(* The schema and the rows of users outlive the process; the environment   *)
(* may be another at every start.                                          *)
(*                                                                         *)
(* A variable of the environment that is unset is None, one that does not  *)
(* parse is Bad.  Passwords, salts and tokens are sequences.               *)
(***************************************************************************)
EXTENDS Integers, SequencesExt

CONSTANTS Settings,     \* environments [database, secret, poll, workers, fallback]
          Migrations,   \* 13
          UsersAt,      \* 7, the one that makes users what CreateUser inserts
          Commands,     \* runs of create-user, and the environments they are
          CommandSettings,  \* run in
          Accounts,     \* what they may ask for: [name, password, admin]
          TooLong,      \* a password bcrypt refuses
          Clients,
          Requests,     \* [method, user, token, salt, about]
          None, Bad,
          MaxStarts,    \* bound: starts of the server
          MaxRequests,  \* bound: requests in a behaviour
          MaxFaults     \* bound: calls that fail and crashes in a behaviour

ASSUME ServerAssumption ==
  /\ Migrations \in Nat /\ UsersAt \in 1..Migrations
  /\ None \notin Settings
  /\ \A a \in Accounts, e \in CommandSettings :
       None # [password |-> a.password, secret |-> e.secret, admin |-> a.admin]
  /\ MaxStarts \in Nat /\ MaxRequests \in Nat /\ MaxFaults \in Nat

VARIABLES version, dirty,  \* schema_migrations
          users,           \* per username its row [password, secret, admin], or None
          server, env,     \* the server's label, "off" when it is not running
          command, asked, under,  \* per command its label, account, environment
          at, req, row,    \* per client its request's label and the row it has read
          starts, sent, faults,
          found            \* history: the row there was when the request came

database == <<version, dirty, users>>
serverVars == <<server, env, starts>>
commandVars == <<command, asked, under>>
requestVars == <<at, req, row, sent, found>>
vars == <<database, serverVars, commandVars, requestVars, faults>>

Names == {a.name : a \in Accounts}

Init ==
  /\ version = 0 /\ dirty = FALSE
  /\ users = [n \in Names |-> None]
  /\ server = "off" /\ env = None
  /\ command = [k \in Commands |-> "idle"]
  /\ asked = [k \in Commands |-> None] /\ under = [k \in Commands |-> None]
  /\ at = [c \in Clients |-> "idle"]
  /\ req = [c \in Clients |-> None] /\ row = [c \in Clients |-> None]
  /\ starts = 0 /\ sent = 0 /\ faults = 0
  /\ found = [c \in Clients |-> None]

Fault == faults < MaxFaults /\ faults' = faults + 1

Refusals == {"unauthorized", "error"}
Busy(c) == at[c] \notin {"idle", "ok", "nocontent", "notfound", "cut"} \cup Refusals
InQuery(c) == at[c] \in {"authQuery", "query"}

\* The process is gone, and with it every request it was working on.
Exit ==
  /\ server' = "off" /\ env' = None
  /\ at' = [c \in Clients |-> IF Busy(c) THEN "cut" ELSE at[c]]
  /\ row' = [c \in Clients |-> IF Busy(c) THEN None ELSE row[c]]
  /\ UNCHANGED <<starts, req, sent, found>>

-----------------------------------------------------------------------------
(* Configuration.                                                          *)

Default(value, default) == IF value = None THEN default ELSE value

\* the variables that are required, and those that are parsed
Loads(e) ==
  /\ e.database # None /\ e.secret # None
  /\ Bad \notin {e.poll, e.workers, e.fallback}

Start(e) ==
  /\ server = "off" /\ starts < MaxStarts
  /\ starts' = starts + 1
  /\ server' = "load" /\ env' = e
  /\ UNCHANGED <<database, commandVars, requestVars, faults>>

Goto(from, to) == server = from /\ server' = to /\ UNCHANGED <<env, starts, requestVars>>

Load ==
  /\ server = "load"
  /\ IF Loads(env) THEN Goto("load", "pool") ELSE Exit
  /\ UNCHANGED <<database, commandVars, faults>>

\* the ping is answered, or not within ten seconds
NewPool ==
  /\ \/ Goto("pool", "migrate") /\ UNCHANGED faults
     \/ server = "pool" /\ Fault /\ Exit
  /\ UNCHANGED <<database, commandVars>>

-----------------------------------------------------------------------------
(* RunMigration.  golang-migrate marks the version it is about to reach as *)
(* dirty, and refuses a schema it finds marked.                            *)

\* "postgres://" becomes "pgx5://"; any other scheme has no driver
Migrator(e) == e.database = "postgres"

MigrateRefuses ==
  /\ server = "migrate"
  /\ ~Migrator(env) \/ dirty
  /\ Exit
  /\ UNCHANGED <<database, commandVars, faults>>

Migrate ==
  /\ Goto("migrate", "migrating")
  /\ Migrator(env) /\ ~dirty /\ version < Migrations
  /\ version' = version + 1 /\ dirty' = TRUE
  /\ UNCHANGED <<users, commandVars, faults>>

\* mutant: the mark is not taken off
MigratedMarked ==
  /\ \/ Goto("migrating", "migrate") /\ UNCHANGED <<dirty, faults>>
     \/ server = "migrating" /\ Fault /\ Exit /\ UNCHANGED dirty
  /\ UNCHANGED <<version, users, commandVars>>

\* a failed migration leaves the mark behind
Migrated ==
  /\ \/ Goto("migrating", "migrate") /\ dirty' = FALSE /\ UNCHANGED faults
     \/ server = "migrating" /\ Fault /\ Exit /\ UNCHANGED dirty
  /\ UNCHANGED <<version, users, commandVars>>

\* mutant: a dirty schema is taken for one without change
UpToDateDirty ==
  /\ \/ Goto("migrate", "serving") /\ Default(env.workers, 2) >= 0
     \/ server = "migrate" /\ Default(env.workers, 2) < 0 /\ Exit
  /\ Migrator(env) /\ version = Migrations
  /\ UNCHANGED <<database, commandVars, faults>>

\* ErrNoChange; making a channel of a negative size panics
UpToDate ==
  /\ \/ Goto("migrate", "serving") /\ Default(env.workers, 2) >= 0
     \/ server = "migrate" /\ Default(env.workers, 2) < 0 /\ Exit
  /\ Migrator(env) /\ ~dirty /\ version = Migrations
  /\ UNCHANGED <<database, commandVars, faults>>

-----------------------------------------------------------------------------
(* Serving and stopping.                                                   *)

\* the ticker of WatchLibrary panics, in a goroutine that runs beside serving
TickerPanics ==
  /\ server = "serving" /\ Default(env.poll, 30) <= 0
  /\ Exit
  /\ UNCHANGED <<database, commandVars, faults>>

\* The listener fails, or the process dies.
Crash ==
  /\ server # "off"
  /\ Fault
  /\ Exit
  /\ UNCHANGED <<database, commandVars>>

\* A signal.  Shutdown closes the listener and, its context being cancelled
\* already, returns without waiting.
Shutdown ==
  /\ Goto("serving", "closing")
  /\ UNCHANGED <<database, commandVars, faults>>

\* pool.Close waits for the connections that are in use.
Stop ==
  /\ server = "closing"
  /\ \A c \in Clients : ~InQuery(c)
  /\ Exit
  /\ UNCHANGED <<database, commandVars, faults>>

-----------------------------------------------------------------------------
(* create-user.                                                            *)

Command(k, a, e) ==
  /\ command[k] = "idle" /\ Loads(e)
  /\ command' = [command EXCEPT ![k] = "pool"]
  /\ asked' = [asked EXCEPT ![k] = a] /\ under' = [under EXCEPT ![k] = e]
  /\ UNCHANGED <<database, serverVars, requestVars, faults>>

\* os.Exit(1)
Quit(k) ==
  /\ command' = [command EXCEPT ![k] = "failed"]
  /\ asked' = [asked EXCEPT ![k] = None] /\ under' = [under EXCEPT ![k] = None]

\* the pool, then the hash and the encryption
CommandPool(k) ==
  /\ command[k] = "pool"
  /\ IF asked[k].password = TooLong THEN Quit(k)
     ELSE command' = [command EXCEPT ![k] = "insert"] /\ UNCHANGED <<asked, under>>
  /\ UNCHANGED <<database, serverVars, requestVars, faults>>

CommandFails(k) ==
  /\ command[k] \in {"pool", "insert"}
  /\ Fault
  /\ Quit(k)
  /\ UNCHANGED <<database, serverVars, requestVars>>

Row(k) == [password |-> asked[k].password, secret |-> under[k].secret, admin |-> asked[k].admin]

\* mutant: ON CONFLICT (username) DO UPDATE
UpsertUser(k) ==
  /\ command[k] = "insert" /\ version >= UsersAt
  /\ command' = [command EXCEPT ![k] = "created"]
  /\ users' = [users EXCEPT ![asked[k].name] = Row(k)]
  /\ UNCHANGED <<version, dirty, asked, under, serverVars, requestVars, faults>>

\* UNIQUE (username), and the columns have to be there
CreateUser(k) ==
  /\ command[k] = "insert"
  /\ IF /\ version > UsersAt \/ (version = UsersAt /\ ~dirty)
        /\ users[asked[k].name] = None
     THEN /\ command' = [command EXCEPT ![k] = "created"]
          /\ users' = [users EXCEPT ![asked[k].name] = Row(k)]
          /\ UNCHANGED <<asked, under>>
     ELSE Quit(k) /\ UNCHANGED users
  /\ UNCHANGED <<version, dirty, serverVars, requestVars, faults>>

-----------------------------------------------------------------------------
(* A request.                                                              *)

GetUserByUsername(name) == IF name \in Names THEN users[name] ELSE None

Send(c, r) ==
  /\ server = "serving"
  /\ ~Busy(c) /\ sent < MaxRequests
  /\ sent' = sent + 1
  /\ at' = [at EXCEPT ![c] = "cors"]
  /\ req' = [req EXCEPT ![c] = r]
  /\ row' = [row EXCEPT ![c] = None]
  /\ found' = [found EXCEPT ![c] = GetUserByUsername(r.user)]
  /\ UNCHANGED <<database, serverVars, commandVars, faults>>

Step(c, from, to) ==
  /\ at[c] = from
  /\ at' = [at EXCEPT ![c] = to]
  /\ UNCHANGED <<req, sent, found, database, serverVars, commandVars>>

\* A query takes a connection, which a pool that is being closed refuses.
Query(c, from, to, refused) == Step(c, from, IF server = "closing" THEN refused ELSE to)

\* a preflight request is answered here, and one without credentials refused
Cors(c) ==
  /\ at[c] = "cors"
  /\ IF req[c].method = "OPTIONS" THEN Step(c, "cors", "nocontent")
     ELSE IF req[c].token = None THEN Step(c, "cors", "unauthorized")
     ELSE Query(c, "cors", "authQuery", "unauthorized")
  /\ UNCHANGED <<row, faults>>

FindUser(c) ==
  /\ at[c] = "authQuery"
  /\ row' = [row EXCEPT ![c] = GetUserByUsername(req[c].user)]
  /\ Step(c, "authQuery", IF row'[c] = None THEN "unauthorized" ELSE "verify")
  /\ UNCHANGED faults

\* AES-GCM opens what the same secret has sealed, and nothing else.
DecryptReversible(secret, r) == IF r.secret = secret THEN {r.password} ELSE {}

\* mutant: the token is not bound to the salt
VerifySubsonicTokenOnly(password, salt, token) == IsPrefix(password, token)

\* MD5 stands for the text it is taken of
VerifySubsonicToken(password, salt, token) == token = password \o salt

Verify(c) ==
  /\ at[c] = "verify"
  /\ LET plain == DecryptReversible(env.secret, row[c])
         verified == \E p \in plain : VerifySubsonicToken(p, req[c].salt, req[c].token)
     IN  \/ plain = {} /\ Step(c, "verify", "error")
         \/ plain # {} /\ ~verified /\ Step(c, "verify", "unauthorized")
         \/ verified /\ Query(c, "verify", "query", "notfound")
  /\ UNCHANGED <<row, faults>>

\* GetUserHandler
GetUser(c) ==
  /\ at[c] = "query"
  /\ row' = [row EXCEPT ![c] = GetUserByUsername(req[c].about)]
  /\ Step(c, "query", IF row'[c] = None THEN "notfound" ELSE "answer")
  /\ UNCHANGED faults

Answer(c) == Step(c, "answer", "ok") /\ UNCHANGED <<row, faults>>

QueryFails(c) ==
  /\ Step(c, "authQuery", "unauthorized") \/ Step(c, "query", "notfound")
  /\ Fault
  /\ UNCHANGED row

-----------------------------------------------------------------------------
Lifecycle ==
  \/ Load \/ NewPool \/ MigrateRefuses \/ Migrate \/ Migrated \/ UpToDate
  \/ TickerPanics \/ Stop

Request(c) == Cors(c) \/ FindUser(c) \/ Verify(c) \/ GetUser(c) \/ Answer(c)

Next ==
  \/ \E e \in Settings : Start(e)
  \/ Lifecycle \/ Shutdown \/ Crash
  \/ \E k \in Commands :
       \/ \E a \in Accounts, e \in CommandSettings : Command(k, a, e)
       \/ CommandPool(k) \/ CommandFails(k) \/ CreateUser(k)
  \/ \E c \in Clients :
       \/ \E r \in Requests : Send(c, r)
       \/ Request(c) \/ QueryFails(c)

Spec == Init /\ [][Next]_vars

\* The processes run on, and queries come to an end.
FairSpec == Spec /\ WF_vars(Lifecycle) /\ \A c \in Clients : WF_vars(Request(c))

-----------------------------------------------------------------------------
(* Properties.                                                             *)

Labels == {"idle", "cors", "authQuery", "verify", "query", "answer", "ok", "nocontent",
           "notfound", "cut"} \cup Refusals

UserRows ==
  {[password |-> a.password, secret |-> e.secret, admin |-> a.admin] :
     a \in Accounts, e \in CommandSettings}

\* The type invariant; there are users only once the table has all its columns.
TypeOK ==
  /\ version \in 0..Migrations /\ dirty \in BOOLEAN
  /\ users \in [Names -> UserRows \cup {None}]
  /\ \A n \in Names : users[n] # None => version >= UsersAt
  /\ server \in {"off", "load", "pool", "migrate", "migrating", "serving", "closing"}
  /\ env \in Settings \cup {None} /\ (server = "off" <=> env = None)
  /\ command \in [Commands -> {"idle", "pool", "insert", "created", "failed"}]
  /\ asked \in [Commands -> Accounts \cup {None}]
  /\ under \in [Commands -> CommandSettings \cup {None}]
  /\ at \in [Clients -> Labels] /\ req \in [Clients -> Requests \cup {None}]
  /\ row \in [Clients -> UserRows \cup {None}] /\ found \in [Clients -> UserRows \cup {None}]
  /\ \A c \in Clients : at[c] \in {"verify", "answer", "ok"} => row[c] # None
  /\ starts \in 0..MaxStarts /\ sent \in 0..MaxRequests /\ faults \in 0..MaxFaults

\* Requests are served on the complete schema only, whatever was interrupted
\* before, and under a configuration of which nothing was guessed.
ServesMigrated ==
  server \in {"serving", "closing"} =>
    /\ version = Migrations /\ ~dirty
    /\ Bad \notin {env.poll, env.workers, env.fallback}

\* What create-user said it created is what there is for that name for good,
\* although another may have asked for the name at the same time.
CreatedKept ==
  \A k \in Commands : command[k] = "created" => users[asked[k].name] = Row(k)

Right(r, u) ==
  /\ u # None /\ u.secret = env.secret
  /\ r.token # None /\ r.token = u.password \o r.salt

\* A request reaches its handler only with the credentials of a user that was
\* created under the server's secret; one that has them is not refused unless a
\* query fails.
Admitted ==
  \A c \in Clients :
    /\ at[c] \in {"query", "answer"} => Right(req[c], GetUserByUsername(req[c].user))
    /\ faults = 0 /\ server = "serving" /\ starts = 1 /\ at[c] \in Refusals
         => ~Right(req[c], found[c])

\* "graceful shutdown": the requests there are get their answers first.
ShutdownWaits ==
  [][server = "closing" /\ server' = "off" /\ faults' = faults =>
       \A c \in Clients : ~Busy(c)]_vars

\* "The database schema is migrated automatically on startup": a server that is
\* started with a good configuration gets to serve, if nothing fails from then on.
Healthy(e) == Loads(e) /\ Migrator(e) /\ Default(e.workers, 2) >= 0 /\ Default(e.poll, 30) > 0

StartsServing ==
  \A n \in 0..MaxFaults :
    server = "load" /\ Healthy(env) /\ faults = n ~> server = "serving" \/ faults > n

\* The same for a schema that no migration was interrupted on.
StartsServingClean ==
  \A n \in 0..MaxFaults :
    server = "load" /\ Healthy(env) /\ ~dirty /\ faults = n
      ~> server = "serving" \/ faults > n

\* A secret "for signing native API JWTs" may be replaced: users get in as before.
SecretReplaceable ==
  \A c \in Clients :
    at[c] \in Refusals /\ found[c] # None /\ faults = 0 /\ req[c].token # None =>
      req[c].token # found[c].password \o req[c].salt
=============================================================================
