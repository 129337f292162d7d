-------------------------- MODULE MCToolsAndService --------------------------
(* The engineering layer's tools and the shared service's parts, each alone:  *)
(* they share nothing, so a behaviour works with one of them.                 *)
EXTENDS EngineeringTools, SharedService, TLC, Integers

\* Two documents of one nonce with overlapping windows, and one of another.
MCDocuments ==
  {[nonce |-> "n1", from |-> 0, until |-> 2],
   [nonce |-> "n1", from |-> 1, until |-> 3],
   [nonce |-> "n2", from |-> 1, until |-> 2]}

\* Two versions of A; B shares a task with both, C shares a target with A.
MCManifests ==
  {[id |-> "A", tasks |-> {"t1"}, paths |-> {"f"}, body |-> 1],
   [id |-> "A", tasks |-> {"t1", "t2"}, paths |-> {"f", "g"}, body |-> 2],
   [id |-> "B", tasks |-> {"t1", "t3"}, paths |-> {"g"}, body |-> 1],
   [id |-> "C", tasks |-> {"t2"}, paths |-> {"f"}, body |-> 1]}

\* Two commands; the first has two sets of approvals, which share those of all
\* but one stage, and a third set holds an approval for the other command.
MCApprovals(command, generate) ==
  [stage \in {"AUTH_GENERATE", "AUTH_VERIFY", "DATA_COMMAND", "AUTH_GLOBAL_LOGOUT"} |->
     [command |-> command, stage |-> stage,
      number |-> IF stage = "AUTH_GENERATE" THEN generate ELSE 1]]

MCGrants ==
  {[command |-> "c1", approvals |-> MCApprovals("c1", 1)],
   [command |-> "c1", approvals |-> MCApprovals("c1", 2)],
   [command |-> "c1",
    approvals |-> [MCApprovals("c1", 3) EXCEPT !["DATA_COMMAND"].command = "c2"]],
   [command |-> "c2", approvals |-> MCApprovals("c2", 1)]}

\* While a part of the service works the tools stay as they begin.
MCInit ==
  /\ Init /\ ServiceInit
  /\ part # "none" => tool = "token" /\ others = 0

MCNext ==
  \/ part = "none" /\ Next /\ UNCHANGED serviceVars
  \/ ServiceNext /\ UNCHANGED vars

\* An idempotency key is only ever compared with another one.
KeySymmetry == Permutations(Keys)

MCSpec == MCInit /\ [][MCNext]_<<vars, serviceVars>>
=============================================================================
