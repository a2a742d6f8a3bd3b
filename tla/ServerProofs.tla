----------------------------- MODULE ServerProofs -----------------------------
(***************************************************************************)
(* Theorems of Server for any environments, accounts, clients and commands *)
(* and any number of starts, requests and faults.                          *)
(***************************************************************************)
EXTENDS Server, TLAPS

LEMMA RowsAreNotNone == None \notin UserRows
BY ServerAssumption DEF UserRows

LEMMA FoundType ==
  ASSUME TypeOK, NEW name
  PROVE  GetUserByUsername(name) \in UserRows \cup {None}
BY DEF TypeOK, GetUserByUsername

-----------------------------------------------------------------------------
(* The types, and that a command has been asked for something.             *)

Asked ==
  \A k \in Commands : command[k] \in {"pool", "insert", "created"} =>
    asked[k] \in Accounts /\ under[k] \in CommandSettings

LEMMA TypingInit == Init => TypeOK /\ Asked
<1>. SUFFICES ASSUME Init PROVE TypeOK /\ Asked
  OBVIOUS
<1>1. version \in 0..Migrations /\ starts \in 0..MaxStarts /\ sent \in 0..MaxRequests /\ faults \in 0..MaxFaults
  BY ServerAssumption DEF ServerAssumption, Init
<1>2. \A k \in Commands : command[k] = "idle"
  BY DEF Init
<1>. QED
  BY <1>1, <1>2 DEF Init, TypeOK, Asked, Labels, Refusals

LEMMA ExitKeepsTypes ==
  ASSUME TypeOK, Exit
  PROVE  /\ at' \in [Clients -> Labels] /\ req' \in [Clients -> Requests \cup {None}]
         /\ row' \in [Clients -> UserRows \cup {None}]
         /\ found' \in [Clients -> UserRows \cup {None}]
         /\ \A c \in Clients : at'[c] \in {"verify", "answer", "ok"} => row'[c] # None
         /\ server' = "off" /\ env' = None
         /\ starts' \in 0..MaxStarts /\ sent' \in 0..MaxRequests
BY DEF TypeOK, Exit, Busy, Labels, Refusals

LEMMA TypingNext == TypeOK /\ Asked /\ [Next]_vars => (TypeOK /\ Asked)'
<1>. SUFFICES ASSUME TypeOK, Asked, [Next]_vars PROVE (TypeOK /\ Asked)'
  OBVIOUS
<1>. USE ServerAssumption
<1>1. ASSUME NEW e \in Settings, Start(e) PROVE (TypeOK /\ Asked)'
  BY <1>1 DEF Start, TypeOK, Asked, database, commandVars, requestVars
<1>2. CASE Load
  BY <1>2, ExitKeepsTypes DEF Load, Goto, TypeOK, Asked, database, commandVars, requestVars
<1>3. CASE NewPool
  BY <1>3, ExitKeepsTypes DEF NewPool, Fault, Goto, TypeOK, Asked, database, commandVars, requestVars
<1>4. CASE MigrateRefuses
  BY <1>4, ExitKeepsTypes DEF MigrateRefuses, TypeOK, Asked, database, commandVars
<1>5. CASE Migrate
  BY <1>5 DEF Migrate, Goto, TypeOK, Asked, commandVars, requestVars
<1>6. CASE Migrated
  <2>1. UNCHANGED <<version, users, commandVars>> /\ dirty' \in BOOLEAN
    BY <1>6 DEF Migrated, TypeOK
  <2>2. CASE Goto("migrating", "migrate") /\ UNCHANGED faults
    BY <2>1, <2>2 DEF Goto, TypeOK, Asked, commandVars, requestVars
  <2>3. CASE Fault /\ Exit
    BY <2>1, <2>3, ExitKeepsTypes DEF Fault, TypeOK, Asked, commandVars
  <2>. QED
    BY <1>6, <2>2, <2>3 DEF Migrated
<1>7. CASE UpToDate
  BY <1>7, ExitKeepsTypes DEF UpToDate, Goto, TypeOK, Asked, database, commandVars, requestVars
<1>8. CASE TickerPanics \/ Crash \/ Stop
  BY <1>8, ExitKeepsTypes DEF TickerPanics, Crash, Stop, Fault, TypeOK, Asked, database, commandVars
<1>9. CASE Shutdown
  BY <1>9 DEF Shutdown, Goto, TypeOK, Asked, database, commandVars, requestVars
<1>10. ASSUME NEW k \in Commands, NEW a \in Accounts, NEW e \in CommandSettings, Command(k, a, e)
       PROVE  (TypeOK /\ Asked)'
  BY <1>10 DEF Command, TypeOK, Asked, database, serverVars, requestVars
<1>11. ASSUME NEW k \in Commands, CommandPool(k) \/ CommandFails(k) PROVE (TypeOK /\ Asked)'
  BY <1>11 DEF CommandPool, CommandFails, Quit, Fault, TypeOK, Asked, database, serverVars, requestVars
<1>12. ASSUME NEW k \in Commands, CreateUser(k) PROVE (TypeOK /\ Asked)'
  <2>1. asked[k] \in Accounts /\ under[k] \in CommandSettings
    BY <1>12 DEF CreateUser, Asked, TypeOK
  <2>2. Row(k) \in UserRows
    BY <2>1 DEF Row, UserRows
  <2>3. users'[asked[k].name] # users[asked[k].name] => version >= UsersAt
    BY <1>12 DEF CreateUser, TypeOK
  <2>. QED
    BY <1>12, <2>2, <2>3 DEF CreateUser, Quit, TypeOK, Asked, serverVars, requestVars
<1>13. ASSUME NEW c \in Clients, NEW r \in Requests, Send(c, r) PROVE (TypeOK /\ Asked)'
  <2>1. GetUserByUsername(r.user) \in UserRows \cup {None}
    BY FoundType
  <2>. QED
    BY <1>13, <2>1 DEF Send, TypeOK, Asked, Labels, database, serverVars, commandVars
<1>14. ASSUME NEW c \in Clients, Cors(c) PROVE (TypeOK /\ Asked)'
  BY <1>14 DEF Cors, Query, Step, TypeOK, Asked, Labels, Refusals, database, serverVars, commandVars
<1>15. ASSUME NEW c \in Clients, FindUser(c) PROVE (TypeOK /\ Asked)'
  <2>1. GetUserByUsername(req[c].user) \in UserRows \cup {None}
    BY FoundType
  <2>. QED
    BY <1>15, <2>1 DEF FindUser, Step, TypeOK, Asked, Labels, Refusals, database, serverVars, commandVars
<1>16. ASSUME NEW c \in Clients, Verify(c) PROVE (TypeOK /\ Asked)'
  BY <1>16 DEF Verify, Query, Step, TypeOK, Asked, Labels, Refusals, database, serverVars, commandVars
<1>17. ASSUME NEW c \in Clients, GetUser(c) PROVE (TypeOK /\ Asked)'
  <2>1. GetUserByUsername(req[c].about) \in UserRows \cup {None}
    BY FoundType
  <2>. QED
    BY <1>17, <2>1 DEF GetUser, Step, TypeOK, Asked, Labels, Refusals, database, serverVars, commandVars
<1>18. ASSUME NEW c \in Clients, Answer(c) \/ QueryFails(c) PROVE (TypeOK /\ Asked)'
  BY <1>18 DEF Answer, QueryFails, Fault, Step, TypeOK, Asked, Labels, Refusals, database, serverVars, commandVars
<1>19. CASE UNCHANGED vars
  BY <1>19 DEF vars, TypeOK, Asked, database, serverVars, commandVars, requestVars
<1>. QED
  BY <1>1, <1>2, <1>3, <1>4, <1>5, <1>6, <1>7, <1>8, <1>9, <1>10, <1>11, <1>12, <1>13, <1>14,
     <1>15, <1>16, <1>17, <1>18, <1>19 DEF Next, Lifecycle, Request

\* The types hold, and there are users only in a table that has their columns.
THEOREM Typing == Spec => []TypeOK
<1>1. TypeOK /\ Asked => TypeOK
  OBVIOUS
<1>. QED
  BY TypingInit, TypingNext, <1>1, PTL DEF Spec

-----------------------------------------------------------------------------
(* The server serves the complete schema.                                  *)

Prepared ==
  /\ server \notin {"off", "load"} => Loads(env)
  /\ server \in {"serving", "closing"} => version = Migrations /\ ~dirty

LEMMA PreparedNext == Prepared /\ [Next]_vars => Prepared'
<1>. SUFFICES ASSUME Prepared, [Next]_vars PROVE Prepared'
  OBVIOUS
<1>1. CASE \E e \in Settings : Start(e)
  BY <1>1 DEF Start, Prepared
<1>2. CASE Load \/ NewPool \/ MigrateRefuses
  BY <1>2 DEF Load, NewPool, MigrateRefuses, Goto, Exit, Prepared
<1>3. CASE Migrate \/ Migrated
  BY <1>3 DEF Migrate, Migrated, Goto, Exit, Prepared
<1>4. CASE UpToDate
  BY <1>4 DEF UpToDate, Goto, Exit, database, Prepared
<1>5. CASE TickerPanics \/ Stop \/ Crash
  BY <1>5 DEF TickerPanics, Stop, Crash, Exit, Prepared
<1>6. CASE Shutdown
  BY <1>6 DEF Shutdown, Goto, database, Prepared
<1>7. ASSUME NEW k \in Commands,
             \/ \E a \in Accounts, e \in CommandSettings : Command(k, a, e)
             \/ CommandPool(k) \/ CommandFails(k) \/ CreateUser(k)
      PROVE  Prepared'
  BY <1>7 DEF Command, CommandPool, CommandFails, CreateUser, database, serverVars, Prepared
<1>8. ASSUME NEW c \in Clients, (\E r \in Requests : Send(c, r)) \/ Request(c) \/ QueryFails(c)
      PROVE  Prepared'
  <2>1. UNCHANGED <<database, serverVars>>
    BY <1>8 DEF Send, Request, Cors, FindUser, Verify, GetUser, Answer, QueryFails, Query, Step
  <2>. QED
    BY <2>1 DEF database, serverVars, Prepared
<1>9. CASE UNCHANGED vars
  BY <1>9 DEF vars, database, serverVars, Prepared
<1>. QED
  BY <1>1, <1>2, <1>3, <1>4, <1>5, <1>6, <1>7, <1>8, <1>9 DEF Next, Lifecycle

\* main serves only once RunMigration has left the complete, unmarked schema,
\* whatever crashes, failed migrations and restarts there were before.
THEOREM SchemaComplete == Spec => []ServesMigrated
<1>1. Init => Prepared
  BY DEF Init, Prepared
<1>2. Prepared => ServesMigrated
  BY DEF Prepared, ServesMigrated, Loads
<1>. QED
  BY <1>1, <1>2, PreparedNext, PTL DEF Spec

-----------------------------------------------------------------------------
(* Accounts.                                                               *)

\* UNIQUE (username): a row that is there stays as it is.
LEMMA RowsStay ==
  ASSUME TypeOK, Asked, [Next]_vars, NEW n \in Names, users[n] # None
  PROVE  users'[n] = users[n]
<1>1. CASE \E k \in Commands : CreateUser(k)
  BY <1>1 DEF CreateUser, Quit, TypeOK
<1>2. CASE ~\E k \in Commands : CreateUser(k)
  <2>1. users' = users
    BY <1>2 DEF Next, vars, Lifecycle, Request, Start, Load, NewPool, MigrateRefuses, Migrate, Migrated,
                UpToDate, TickerPanics, Stop, Shutdown, Crash, Command, CommandPool, CommandFails,
                Send, Cors, FindUser, Verify, GetUser, Answer, QueryFails, Query, Step, database
  <2>. QED
    BY <2>1
<1>. QED
  BY <1>1, <1>2

\* A command that has created its user does nothing more.
LEMMA CreatedStays ==
  ASSUME TypeOK, [Next]_vars, NEW k \in Commands, command[k] = "created"
  PROVE  UNCHANGED <<command[k], asked[k], under[k]>>
<1>1. ASSUME NEW j \in Commands,
             \/ \E a \in Accounts, e \in CommandSettings : Command(j, a, e)
             \/ CommandPool(j) \/ CommandFails(j) \/ CreateUser(j)
      PROVE  UNCHANGED <<command[k], asked[k], under[k]>>
  BY <1>1 DEF Command, CommandPool, CommandFails, CreateUser, Quit, TypeOK
<1>2. CASE UNCHANGED commandVars
  BY <1>2 DEF commandVars
<1>3. \/ UNCHANGED commandVars
      \/ \E j \in Commands :
           \/ \E a \in Accounts, e \in CommandSettings : Command(j, a, e)
           \/ CommandPool(j) \/ CommandFails(j) \/ CreateUser(j)
  BY DEF Next, vars, Lifecycle, Request, Start, Load, NewPool, MigrateRefuses, Migrate, Migrated,
         UpToDate, TickerPanics, Stop, Shutdown, Crash, Send, Cors, FindUser, Verify, GetUser,
         Answer, QueryFails, Query, Step
<1>. QED
  BY <1>1, <1>2, <1>3

LEMMA CreatedNext == TypeOK /\ Asked /\ CreatedKept /\ [Next]_vars => CreatedKept'
<1>. SUFFICES ASSUME TypeOK, Asked, CreatedKept, [Next]_vars,
                     NEW k \in Commands, command'[k] = "created"
              PROVE  users'[asked'[k].name] = Row(k)'
  BY DEF CreatedKept
<1>1. CASE command[k] = "created"
  <2>1. asked[k] \in Accounts /\ under[k] \in CommandSettings
    BY <1>1 DEF Asked
  <2>2. Row(k) \in UserRows /\ asked[k].name \in Names
    BY <2>1 DEF Row, UserRows, Names
  <2>3. users[asked[k].name] = Row(k)
    BY <1>1 DEF CreatedKept
  <2>4. users'[asked[k].name] = users[asked[k].name]
    BY <2>2, <2>3, RowsStay, RowsAreNotNone
  <2>. QED
    BY <1>1, <2>3, <2>4, CreatedStays DEF Row
<1>2. CASE command[k] # "created"
  <2>1. CreateUser(k)
    <3>1. command'[k] # command[k]
      BY <1>2
    <3>2. ~UNCHANGED commandVars
      BY <3>1 DEF commandVars
    <3>3. \E j \in Commands :
            \/ \E a \in Accounts, e \in CommandSettings : Command(j, a, e)
            \/ CommandPool(j) \/ CommandFails(j) \/ CreateUser(j)
      BY <3>2 DEF Next, vars, Lifecycle, Request, Start, Load, NewPool, MigrateRefuses, Migrate,
                  Migrated, UpToDate, TickerPanics, Stop, Shutdown, Crash, Send, Cors, FindUser,
                  Verify, GetUser, Answer, QueryFails, Query, Step
    <3>. QED
      BY <3>1, <3>3 DEF Command, CommandPool, CommandFails, CreateUser, Quit, TypeOK
  <2>2. /\ users' = [users EXCEPT ![asked[k].name] = Row(k)]
        /\ UNCHANGED <<asked, under>>
    BY <2>1 DEF CreateUser, Quit, TypeOK
  <2>3. asked[k].name \in Names
    BY <2>1 DEF CreateUser, Asked, Names
  <2>. QED
    BY <2>2, <2>3 DEF TypeOK, Row
<1>. QED
  BY <1>1, <1>2

\* What create-user said it created is never replaced: the row that was there
\* first wins, however many commands ask for its name at once.
THEOREM UsersKept == Spec => []CreatedKept
<1>1. Init => CreatedKept
  BY DEF Init, CreatedKept
<1>. QED
  BY <1>1, TypingInit, TypingNext, CreatedNext, PTL DEF Spec

-----------------------------------------------------------------------------
(* Authentication.                                                         *)

Credentials(c) ==
  /\ at[c] = "verify" => row[c] = GetUserByUsername(req[c].user)
  /\ at[c] \in {"authQuery", "verify", "query", "answer"} => req[c].token # None
  /\ at[c] \in {"query", "answer"} => Right(req[c], GetUserByUsername(req[c].user))
  /\ Busy(c) => server \in {"serving", "closing"}
  /\ Busy(c) /\ found[c] # None => GetUserByUsername(req[c].user) = found[c]

\* Before the first server serves there has been no request, and what the one
\* that serves since has refused had not been asked for rightly.
Refused(c) ==
  /\ starts = 0 => server = "off"
  /\ starts = 0 \/ (starts = 1 /\ server \in {"load", "pool", "migrate", "migrating"}) => at[c] = "idle"
  /\ faults = 0 /\ server = "serving" /\ starts = 1 /\ at[c] \in Refusals => ~Right(req[c], found[c])

Admission == \A c \in Clients : Credentials(c) /\ Refused(c)

\* A step that leaves the requests alone.
LEMMA QuietCredentials ==
  ASSUME TypeOK, Asked, [Next]_vars, NEW c \in Clients, Credentials(c), UNCHANGED requestVars,
         server \in {"serving", "closing"} => server' \in {"serving", "closing"} /\ env' = env
  PROVE  Credentials(c)'
<1>1. \A n \in Names : users[n] # None => users'[n] = users[n]
  BY RowsStay
<1>2. UNCHANGED <<at[c], req[c], row[c], found[c]>> /\ (at[c] = "verify" => row[c] # None)
  BY DEF requestVars, TypeOK
<1>. QED
  BY <1>1, <1>2 DEF Credentials, Busy, Right, Refusals, GetUserByUsername

\* A request of another client.
LEMMA OtherCredentials ==
  ASSUME TypeOK, Asked, [Next]_vars, NEW c \in Clients, Credentials(c),
         UNCHANGED <<server, env, at[c], req[c], row[c], found[c]>>
  PROVE  Credentials(c)'
<1>1. \A n \in Names : users[n] # None => users'[n] = users[n]
  BY RowsStay
<1>2. at[c] = "verify" => row[c] # None
  BY DEF TypeOK
<1>. QED
  BY <1>1, <1>2 DEF Credentials, Busy, Right, Refusals, GetUserByUsername

LEMMA ExitCredentials ==
  ASSUME TypeOK, NEW c \in Clients, Exit
  PROVE  Credentials(c)'
BY DEF Exit, TypeOK, Labels, Credentials, Busy, Refusals

LEMMA RequestCredentials ==
  ASSUME TypeOK, Asked, [Next]_vars, NEW c \in Clients, Credentials(c), Request(c) \/ QueryFails(c)
  PROVE  Credentials(c)'
<1>1. UNCHANGED <<users, server, env, req, found>>
  BY DEF Request, Cors, FindUser, Verify, GetUser, Answer, QueryFails, Query, Step, database, serverVars
<1>2. at[c] \in {"cors", "authQuery", "verify", "query", "answer"}
  BY DEF Request, Cors, FindUser, Verify, GetUser, Answer, QueryFails, Query, Step
<1>3. Busy(c)
  BY <1>2 DEF Busy, Refusals
<1>4. CASE Cors(c) \/ Answer(c) \/ QueryFails(c)
  BY <1>1, <1>3, <1>4 DEF Cors, Answer, QueryFails, Query, Step, Credentials, Busy, Right, Refusals,
                          GetUserByUsername, TypeOK
<1>5. CASE FindUser(c) \/ GetUser(c)
  BY <1>1, <1>3, <1>5 DEF FindUser, GetUser, Step, Credentials, Busy, Right, Refusals,
                          GetUserByUsername, TypeOK
<1>6. CASE Verify(c)
  <2>1. at'[c] = "query" => Right(req[c], row[c])
    BY <1>3, <1>6 DEF Verify, Query, Step, VerifySubsonicToken, DecryptReversible, Right, Credentials, TypeOK
  <2>. QED
    BY <1>1, <1>3, <1>6, <2>1 DEF Verify, Query, Step, Credentials, Busy, Right, Refusals,
                                  GetUserByUsername, TypeOK
<1>. QED
  BY <1>4, <1>5, <1>6 DEF Request

LEMMA CredentialsNext ==
  ASSUME TypeOK, Asked, [Next]_vars, \A c \in Clients : Credentials(c)
  PROVE  (\A c \in Clients : Credentials(c))'
<1>. SUFFICES ASSUME NEW c \in Clients PROVE Credentials(c)'
  OBVIOUS
<1>1. CASE Exit
  BY <1>1, ExitCredentials
<1>2. ASSUME ~Exit, UNCHANGED requestVars PROVE Credentials(c)'
  <2>1. server \in {"serving", "closing"} => server' \in {"serving", "closing"} /\ env' = env
    BY <1>2 DEF Next, vars, Lifecycle, Request, Start, Load, NewPool, MigrateRefuses, Migrate, Migrated,
                UpToDate, TickerPanics, Stop, Shutdown, Crash, Command, CommandPool, CommandFails,
                CreateUser, Send, Cors, FindUser, Verify, GetUser, Answer, QueryFails, Query, Step,
                Goto, serverVars
  <2>. QED
    BY <1>2, <2>1, QuietCredentials
<1>3. ASSUME NEW d \in Clients, NEW r \in Requests, Send(d, r) PROVE Credentials(c)'
  <2>1. CASE d = c
    BY <1>3, <2>1 DEF Send, Credentials, Busy, Refusals, GetUserByUsername, database, serverVars, TypeOK
  <2>2. CASE d # c
    <3>1. UNCHANGED <<server, env, at[c], req[c], row[c], found[c]>>
      BY <1>3, <2>2 DEF Send, serverVars, TypeOK
    <3>. QED
      BY <3>1, OtherCredentials
  <2>. QED
    BY <2>1, <2>2
<1>4. ASSUME NEW d \in Clients, Request(d) \/ QueryFails(d) PROVE Credentials(c)'
  <2>1. CASE d = c
    BY <1>4, <2>1, RequestCredentials
  <2>2. CASE d # c
    <3>1. UNCHANGED <<server, env, at[c], req[c], row[c], found[c]>>
      BY <1>4, <2>2 DEF Request, Cors, FindUser, Verify, GetUser, Answer, QueryFails, Query, Step,
                        serverVars, TypeOK
    <3>. QED
      BY <3>1, OtherCredentials
  <2>. QED
    BY <2>1, <2>2
<1>5. \/ Exit \/ UNCHANGED requestVars
      \/ \E d \in Clients : (\E r \in Requests : Send(d, r)) \/ Request(d) \/ QueryFails(d)
  BY DEF Next, vars, Lifecycle, Start, Load, NewPool, MigrateRefuses, Migrate, Migrated, UpToDate,
         TickerPanics, Stop, Shutdown, Crash, Command, CommandPool, CommandFails, CreateUser, Goto
<1>. QED
  BY <1>1, <1>2, <1>3, <1>4, <1>5

LEMMA RequestRefused ==
  ASSUME TypeOK, [Next]_vars, NEW c \in Clients, Credentials(c), Refused(c), Request(c) \/ QueryFails(c)
  PROVE  Refused(c)'
<1>1. UNCHANGED <<users, server, env, req, found, starts>> /\ starts \in Nat /\ faults \in Nat
  BY DEF Request, Cors, FindUser, Verify, GetUser, Answer, QueryFails, Query, Step, database, serverVars,
         TypeOK
<1>2. at[c] \in {"cors", "authQuery", "verify", "query", "answer"}
  BY DEF Request, Cors, FindUser, Verify, GetUser, Answer, QueryFails, Query, Step
<1>3. Busy(c) /\ at[c] # "idle"
  BY <1>2 DEF Busy, Refusals
<1>4. faults' = 0 /\ server = "serving" /\ at'[c] \in Refusals => ~Right(req[c], found[c])
  <2>1. CASE Cors(c) \/ Answer(c)
    BY <1>1, <1>2, <2>1 DEF Cors, Answer, Query, Step, Right, Refusals, TypeOK
  <2>2. CASE FindUser(c)
    BY <1>1, <1>3, <2>2 DEF FindUser, Step, Credentials, Right, Refusals, TypeOK
  <2>3. CASE Verify(c)
    BY <1>1, <1>3, <2>3 DEF Verify, Query, Step, VerifySubsonicToken, DecryptReversible, Right,
                            Credentials, Refusals, TypeOK
  <2>4. CASE GetUser(c) \/ QueryFails(c)
    BY <1>1, <2>4 DEF GetUser, QueryFails, Fault, Step, Refusals, TypeOK
  <2>. QED
    BY <2>1, <2>2, <2>3, <2>4 DEF Request
<1>. QED
  BY <1>1, <1>3, <1>4 DEF Refused, Right

LEMMA RefusedNext ==
  ASSUME TypeOK, [Next]_vars, \A c \in Clients : Credentials(c) /\ Refused(c)
  PROVE  (\A c \in Clients : Refused(c))'
<1>. SUFFICES ASSUME NEW c \in Clients PROVE Refused(c)'
  OBVIOUS
<1>. starts \in Nat /\ faults \in Nat
  BY DEF TypeOK
<1>1. ASSUME NEW e \in Settings, Start(e) PROVE Refused(c)'
  BY <1>1 DEF Start, Refused, Right, requestVars
<1>2. CASE Exit
  BY <1>2 DEF Exit, Busy, Refused
<1>3. ASSUME Load \/ NewPool \/ MigrateRefuses \/ Migrate \/ Migrated, ~Exit PROVE Refused(c)'
  <2>1. /\ server \in {"load", "pool", "migrate", "migrating"}
        /\ server' \in {"load", "pool", "migrate", "migrating"} /\ UNCHANGED <<starts, at[c]>>
    BY <1>3 DEF Load, NewPool, MigrateRefuses, Migrate, Migrated, Goto, requestVars
  <2>. QED
    BY <2>1 DEF Refused
<1>4. ASSUME UpToDate, ~Exit PROVE Refused(c)'
  BY <1>4 DEF UpToDate, Goto, Refused, requestVars, Refusals
<1>5. CASE Shutdown
  BY <1>5 DEF Shutdown, Goto, Refused, requestVars
<1>6. ASSUME NEW k \in Commands,
             \/ \E a \in Accounts, e \in CommandSettings : Command(k, a, e)
             \/ CommandPool(k) \/ CommandFails(k) \/ CreateUser(k)
      PROVE  Refused(c)'
  <2>1. UNCHANGED <<server, env, starts, at[c], req[c], found[c]>> /\ (faults' = 0 => faults = 0)
    BY <1>6 DEF Command, CommandPool, CommandFails, CreateUser, Fault, serverVars, requestVars
  <2>. QED
    BY <2>1 DEF Refused, Right
<1>7. ASSUME NEW d \in Clients, NEW r \in Requests, Send(d, r) PROVE Refused(c)'
  BY <1>7 DEF Send, Refused, Right, Refusals, serverVars, TypeOK
<1>8. ASSUME NEW d \in Clients, Request(d) \/ QueryFails(d) PROVE Refused(c)'
  <2>1. CASE d = c
    BY <1>8, <2>1, RequestRefused
  <2>2. CASE d # c
    <3>1. /\ UNCHANGED <<server, env, starts, at[c], req[c], found[c]>>
          /\ faults' = 0 => faults = 0
      BY <1>8, <2>2 DEF Request, Cors, FindUser, Verify, GetUser, Answer, QueryFails, Query, Step, Fault,
                        serverVars, TypeOK
    <3>. QED
      BY <3>1 DEF Refused, Right
  <2>. QED
    BY <2>1, <2>2
<1>9. CASE UNCHANGED vars
  BY <1>9 DEF vars, serverVars, requestVars, Refused, Right
<1>. QED
  BY <1>1, <1>2, <1>3, <1>4, <1>5, <1>6, <1>7, <1>8, <1>9
  DEF Next, Lifecycle, TickerPanics, Stop, Crash

\* A request is handled only with the credentials of a user that was created
\* under the server's secret, and who has them is let in if no query fails.
THEOREM AdmittedAlways == Spec => []Admitted
<1>. DEFINE Inv == TypeOK /\ Asked /\ Admission
<1>1. Init => Inv
  <2>1. Init => Admission
    BY DEF Init, Admission, Credentials, Refused, Busy, Refusals
  <2>. QED
    BY <2>1, TypingInit
<1>2. Inv /\ [Next]_vars => Inv'
  BY TypingNext, CredentialsNext, RefusedNext DEF Admission
<1>3. Inv => Admitted
  BY DEF Admission, Credentials, Refused, Admitted
<1>. QED
  BY <1>1, <1>2, <1>3, PTL DEF Spec
=============================================================================
