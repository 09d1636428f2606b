------------------------------ MODULE RpcAgents ------------------------------
(***************************************************************************)
(* The RPC agents of the ck-doge-canister and their proxy tokens.          *)
(*                                                                         *)
(* admin_set_agent and the refreshing of the tokens take a list of agents, *)
(* await one signature for every name in it, and then write the whole list *)
(* back with its tokens: two of these calls may be open at once, and the   *)
(* last one to end decides.  A list stands for its agents with the tokens  *)
(* of the call that wrote it; <<>> as a signer's list says it is idle.     *)
(***************************************************************************)
EXTENDS Naturals, Sequences, FiniteSets

CONSTANTS
  Agents, NameOf,   \* RPC agents, and their names
  FirstAgents,      \* rpc_agents when the run starts
  AgentLists,       \* lists an administrator may set
  Signers           \* slots for the calls that sign tokens

ASSUME AgentsAssumption ==
  /\ FirstAgents \in Seq(Agents)
  /\ AgentLists \subseteq Seq(Agents)
  /\ DOMAIN NameOf = Agents

VARIABLES
  rpc_agents,
  refresh_timer,    \* is refresh_proxy_token_timer set?
  signing           \* signer -> [list, left, set]: signatures still awaited

agents == <<rpc_agents, refresh_timer, signing>>

IdleSigner == [list |-> << >>, left |-> 0, set |-> FALSE]
Names(list) == {NameOf[list[i]] : i \in DOMAIN list}

InitAgents ==
  /\ rpc_agents = FirstAgents
  /\ refresh_timer = (FirstAgents # << >>)
  /\ signing = [s \in Signers |-> IdleSigner]

-----------------------------------------------------------------------------
(* update_proxy_token *)

\* Up to the first signature; agents of one name share a token.
Sign(s, list, set) ==
  /\ signing[s] = IdleSigner
  /\ signing' = [signing EXCEPT ![s] =
       [list |-> list, left |-> Cardinality(Names(list)), set |-> set]]

TokenSigned(s) ==   \* a signature arrives, and others are missing
  /\ signing[s].left > 1
  /\ signing' = [signing EXCEPT ![s].left = @ - 1]
  /\ UNCHANGED <<rpc_agents, refresh_timer>>

\* admin_set_agent sets the refresh timer unless there is one.
Armed_before(s) == refresh_timer   \* mutant: left to post_upgrade
Armed(s) == refresh_timer \/ signing[s].set

TokensSigned(s) ==   \* the last one: the list is written as a whole
  /\ signing[s].left = 1
  /\ rpc_agents' = signing[s].list
  /\ refresh_timer' = Armed(s)
  /\ signing' = [signing EXCEPT ![s] = IdleSigner]

SignFails(s) ==   \* expect("failed to sign proxy token"): nothing is written
  /\ signing[s].left > 0
  /\ signing' = [signing EXCEPT ![s] = IdleSigner]
  /\ UNCHANGED <<rpc_agents, refresh_timer>>

-----------------------------------------------------------------------------
(* Who signs *)

AdminSetAgent(s, list) ==   \* an empty list is an error
  /\ list # << >>
  /\ Sign(s, list, TRUE)
  /\ UNCHANGED <<rpc_agents, refresh_timer>>

\* refresh_proxy_token; an empty list is written back at once.
Refresh(s) ==
  /\ IF rpc_agents = << >> THEN UNCHANGED signing ELSE Sign(s, rpc_agents, FALSE)
  /\ UNCHANGED <<rpc_agents, refresh_timer>>

RefreshTick(s) == refresh_timer /\ Refresh(s)

\* The refresh at the end of admin_restart_syncing.  Bound: it is left out
\* when every slot of S is taken.
RefreshAfter(S) ==
  IF \A s \in S : signing[s] # IdleSigner THEN UNCHANGED agents
  ELSE \E s \in S : Refresh(s)

\* Upgrades wait for open calls; post_upgrade sets the timer.
UpgradeAgents ==
  /\ \A s \in Signers : signing[s] = IdleSigner
  /\ refresh_timer' = TRUE
  /\ UNCHANGED <<rpc_agents, signing>>

-----------------------------------------------------------------------------
(* get_agent and get_attest_agents *)

Agent(list)        == Head(list)
AttestAgents(list) == IF list = << >> THEN << >> ELSE Tail(list)

-----------------------------------------------------------------------------
(* Properties *)

AgentTypes ==
  /\ rpc_agents \in {FirstAgents} \cup AgentLists
  /\ refresh_timer \in BOOLEAN
  /\ signing \in [Signers -> [list : {<< >>, FirstAgents} \cup AgentLists,
                              left : Nat, set : BOOLEAN]]

\* Tokens expire two minutes after the next refresh is due: whichever calls
\* overlap or fail, and after upgrades, agents that are in use have a timer
\* that refreshes their tokens.
TokensRefreshed == rpc_agents # << >> => refresh_timer
=============================================================================
