------------------------------ MODULE ServerMC -------------------------------
(***************************************************************************)
(* Environments, accounts and requests for Server.                         *)
(***************************************************************************)
EXTENDS Server

Good == [database |-> "postgres", secret |-> "s1", poll |-> None, workers |-> None,
         fallback |-> None]

\* the good one, another secret, and one thing wrong with each of the others
MCSettings ==
  { Good, [Good EXCEPT !.secret = "s2"], [Good EXCEPT !.secret = None],
    [Good EXCEPT !.database = "postgresql"], [Good EXCEPT !.poll = 0],
    [Good EXCEPT !.workers = -1], [Good EXCEPT !.workers = Bad] }

MCCommandSettings == { Good, [Good EXCEPT !.secret = "s2"] }

MCAccounts ==
  { [name |-> "alice", password |-> <<"p">>, admin |-> TRUE],
    [name |-> "alice", password |-> <<"q">>, admin |-> FALSE],
    [name |-> "alice", password |-> TooLong, admin |-> FALSE] }

Get(user, token, salt) ==
  [method |-> "GET", user |-> user, token |-> token, salt |-> salt, about |-> user]

MCRequests ==
  { Get("alice", <<"p", "x">>, <<"x">>), Get("alice", <<"p", "x">>, <<"y">>),
    Get("bob", <<"p", "x">>, <<"x">>), Get("alice", None, None),
    [Get("alice", <<"p", "x">>, <<"x">>) EXCEPT !.about = "bob"],
    [Get("alice", None, None) EXCEPT !.method = "OPTIONS"] }
=============================================================================
