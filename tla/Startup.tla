------------------------------ MODULE Startup -------------------------------
(***************************************************************************)
(* From the builder to a serving process: the caller of AppBuild serves    *)
(* its application (App.Serve, api.NewServer), which takes its token from  *)
(* one source; with a token file it is one of the processes of TokenFile   *)
(* that start on one path.                                                 *)
(***************************************************************************)
EXTENDS TokenFile, AppBuild

CONSTANTS
  Self,     \* the process that builds the application
  Sources   \* bound: the lists of token sources the caller gives to Serve

ASSUME SelfAssumption == Self \in Servers

VARIABLE server   \* what became of NewServer: "none" before, else its source

startupVars == <<vars, appVars, server>>

StartupInit == Init /\ AppInit /\ server = "none"

(* serverToken: the options are applied in turn, a second source is a      *)
(* conflict, even the same one again.                                      *)
TokenSource(sources) ==
  CASE sources = <<>> -> "generated"
    [] Len(sources) > 1 -> "refused"
    [] sources[1] = "blank" -> "refused"
    [] OTHER -> sources[1]

(* NewServer, before it looks at the token file.                           *)
ServeApp(sources) ==
  /\ apps # <<>> /\ server = "none"
  /\ server' = TokenSource(sources)
  /\ UNCHANGED <<vars, appVars>>

(* Bound: the other processes begin when this one does, they share nothing *)
(* with it before; the caller has no business with its builder any more.   *)
StartupNext ==
  \/ server = "none" /\ AppNext /\ UNCHANGED <<vars, server>>
  \/ \E sources \in Sources : ServeApp(sources)
  \/ server = "file" /\ Next /\ UNCHANGED <<appVars, server>>

StartupSpec == StartupInit /\ [][StartupNext]_startupVars

(* What is left to tell states apart once the token file is in use.        *)
Rest == IF server = "file" THEN <<vars>> ELSE <<startupVars>>
=============================================================================
