----------------------------- MODULE TokenFile ------------------------------
(***************************************************************************)
(* The server's token file (src/api/auth.go): servers that start at the    *)
(* same time on one path, each a process that may die between any two      *)
(* system calls.  The file is created exclusively and written afterwards;  *)
(* a file that is there is read and never replaced.                        *)
(***************************************************************************)
EXTENDS Integers, FiniteSets

CONSTANTS
  Servers,     \* starts of a server, on the one path
  Tokens,      \* what generateToken may return
  TokenOf,     \* the token a server would generate: 256 random bits each
  None

ASSUME TokenAssumption ==
  /\ TokenOf \in [Servers -> Tokens]
  /\ Tokens \cap {None, "absent", "empty", "partial"} = {}

VARIABLES
  file,      \* "absent", "empty", "partial" or the token it holds
  pc,        \* pc[s]: where loadOrCreateTokenPath of server s is
  token      \* token[s]: the token the server serves with, None before

vars == <<file, pc, token>>

Init ==
  /\ file = "absent"
  /\ pc = [s \in Servers |-> "new"]
  /\ token = [s \in Servers |-> None]

Goto(s, next) == pc' = [pc EXCEPT ![s] = next]
Serve(s, t) == token' = [token EXCEPT ![s] = t] /\ Goto(s, "serving")

(* MkdirAll and Stat, either of which may fail: the file is there, or it   *)
(* is to be created.                                                       *)
Stat(s) ==
  /\ pc[s] = "new"
  /\ \/ Goto(s, IF file = "absent" THEN "create" ELSE "read")
     \/ Goto(s, "failed")
  /\ UNCHANGED <<file, token>>

(* readTokenFile: what is not a whole token is refused.                    *)
Read(s) ==
  /\ pc[s] = "read"
  /\ IF file \in Tokens THEN Serve(s, file) ELSE Goto(s, "failed") /\ UNCHANGED token
  /\ UNCHANGED file

(* OpenFile with O_CREATE and O_EXCL: of several that got here one creates *)
(* the file.                                                               *)
Truncates(s) == s \in Servers  \* mutant of Exclusive: without O_EXCL
Exclusive(s) == s \in Servers /\ file = "absent"
Create(s) ==
  /\ pc[s] = "create"
  /\ IF Exclusive(s) THEN file' = "empty" /\ Goto(s, "write") ELSE Goto(s, "failed") /\ UNCHANGED file
  /\ UNCHANGED token

(* Write: all of it, or an error after none, some or all but the last byte,*)
(* a line end, without which it is a token too.                            *)
Write(s) ==
  /\ pc[s] = "write"
  /\ \/ file' = TokenOf[s] /\ Serve(s, TokenOf[s])
     \/ file' \in {"empty", "partial", TokenOf[s]} /\ Goto(s, "failed") /\ UNCHANGED token

(* The process dies while it starts; what it wrote stays.                  *)
Crash(s) ==
  /\ pc[s] \in {"new", "read", "create", "write"}
  /\ Goto(s, "failed")
  /\ UNCHANGED <<file, token>>

Stop == (\A s \in Servers : pc[s] \in {"serving", "failed"}) /\ UNCHANGED vars

Next == (\E s \in Servers : Stat(s) \/ Read(s) \/ Create(s) \/ Write(s) \/ Crash(s)) \/ Stop

Spec == Init /\ [][Next]_vars

-----------------------------------------------------------------------------
(* Properties                                                              *)

(* Every variable has its type, and only a server that serves has a token. *)
TypeOK ==
  /\ file \in {"absent", "empty", "partial"} \cup Tokens
  /\ pc \in [Servers -> {"new", "read", "create", "write", "serving", "failed"}]
  /\ token \in [Servers -> Tokens \cup {None}]
  /\ \A s \in Servers : token[s] = None <=> pc[s] # "serving"

(* Every server that serves does so with the token the file holds, so that *)
(* a client that reads the file can talk to all of them, however many      *)
(* started at once and wherever some of them died.                         *)
TokenAgreed == \A s \in Servers : pc[s] = "serving" => token[s] = file
=============================================================================
