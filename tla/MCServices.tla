----------------------------- MODULE MCServices -----------------------------
(***************************************************************************)
(* Five services of the process that share no state, in one instance; a    *)
(* behaviour is one of theirs, chosen at the start.                        *)
(***************************************************************************)
EXTENDS EventStream, McpClient, MemoryChains, SourceCache, SignIn, TLC

CONSTANTS
  Services, \* those of the instance
  h1, h2, created

\* Two handlers of one type.
SomeWants == h1 :> created @@ h2 :> created

VARIABLE service

servicesVars == <<streamVars, mcpVars, memoryVars, cacheVars, signVars, service>>

ServicesInit ==
  /\ service \in Services
  /\ StreamInit /\ McpInit /\ MemoryInit /\ CacheInit /\ SignInit

ServicesNext ==
  /\ \/ /\ service = "stream" /\ StreamNext
        /\ UNCHANGED <<mcpVars, memoryVars, cacheVars, signVars>>
     \/ /\ service = "mcp" /\ McpNext
        /\ UNCHANGED <<streamVars, memoryVars, cacheVars, signVars>>
     \/ /\ service = "memory" /\ MemoryNext
        /\ UNCHANGED <<streamVars, mcpVars, cacheVars, signVars>>
     \/ /\ service = "cache" /\ CacheNext
        /\ UNCHANGED <<streamVars, mcpVars, memoryVars, signVars>>
     \/ /\ service = "signIn" /\ SignNext
        /\ UNCHANGED <<streamVars, mcpVars, memoryVars, cacheVars>>
  /\ UNCHANGED service

ServicesSpec == ServicesInit /\ [][ServicesNext]_servicesVars

\* The poll loop reschedules itself and a started process subscribes its
\* handlers; the event loop runs what is due, timers included, and a tick of the
\* memory lifecycle, should one be started, to its end.
ServicesFairSpec ==
  /\ ServicesSpec
  /\ WF_streamVars(service = "stream" /\ StreamWork)
  /\ \A c \in Calls : WF_mcpVars(service = "mcp" /\ CallProgress(c))
  /\ WF_memoryVars(service = "memory" /\ TickProgress)

\* The type invariants of the five services.
ServicesTypeOK ==
  StreamTypeOK /\ McpTypeOK /\ MemoryTypeOK /\ CacheTypeOK /\ SignTypeOK
=============================================================================
