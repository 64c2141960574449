----------------------------- MODULE WorkerGit -----------------------------
(***************************************************************************)
(* The worker's git operations: a branch is reset to its base, what lies   *)
(* in the working tree is committed onto it and pushed.  The worker serves *)
(* one request at a time; executors edit the same tree and others push to  *)
(* the same remote meanwhile.                                              *)
(*                                                                         *)
(* Every command may fail, and one that runs into its timeout is ended,    *)
(* before or after it had its effect.  A branch is the sequence of its     *)
(* commits, a commit the set of the edits in it.                           *)
(***************************************************************************)
EXTENDS RecordStore, Naturals, Sequences, SequencesExt

CONSTANTS
    Branches,
    Main,         \* the branch the remote has at first
    Edits,        \* bound: what may be edited, each once
    Runs          \* bound: how many runs are asked for

Commits == SUBSET Edits

ASSUME GitAssumption == None \notin Seq(Commits)

VARIABLES
    branch,       \* the local branches, None for one not there
    tracking,     \* remote/branch, as last fetched or pushed
    remote,       \* the branches of the remote
    tree,         \* edits in the working tree, not staged
    index,        \* edits staged
    fresh,        \* edits nobody made yet
    run,          \* the request at work
    runs,
    pushed        \* what the worker answered as done, with its branch

gitVars == <<branch, tracking, remote, tree, index, fresh, run, runs, pushed>>

NoRun ==
    [pc |-> "idle", to |-> None, from |-> None, push |-> FALSE, stage |-> FALSE,
     fetch |-> FALSE, llm |-> FALSE, commit |-> {}]

At(pc) == run.pc = pc

GoesTo(pc) == run' = [run EXCEPT !.pc = pc]

Ends == run' = NoRun

(* run_cmd: the command works, fails, or is ended at its timeout with or   *)
(* without its effect; a failed step ends the run.                         *)
Command(effect, nothing, next) ==
    \/ effect  /\ GoesTo(next)
    \/ effect  /\ Ends
    \/ nothing /\ Ends

-----------------------------------------------------------------------------
(* POST /run.  An unknown branch is made; a request that names no git      *)
(* operation changes nothing here.                                         *)
AskRun ==
    /\ At("idle") /\ runs < Runs
    /\ runs' = runs + 1
    /\ \E to \in Branches, from \in Branches, push \in BOOLEAN, stage \in BOOLEAN,
          fetch \in BOOLEAN, llm \in BOOLEAN :
          run' = [pc |-> IF fetch THEN "fetch" ELSE "checkout", to |-> to, from |-> from,
                  push |-> push, stage |-> stage, fetch |-> fetch, llm |-> llm,
                  commit |-> {}]
    /\ UNCHANGED <<branch, tracking, remote, tree, index, fresh, pushed>>

Fetch ==
    /\ At("fetch")
    /\ Command(tracking' = remote, UNCHANGED tracking, "checkout")
    /\ UNCHANGED <<branch, remote, tree, index, fresh, runs, pushed>>

Start == IF run.fetch THEN tracking[run.from] ELSE branch[run.from]

(* git checkout -B: the branch is reset, edits are carried over or in the  *)
(* way.                                                                    *)
Checkout ==
    /\ At("checkout")
    /\ IF Start = None
         THEN Ends /\ UNCHANGED branch
         ELSE Command(branch' = [branch EXCEPT ![run.to] = Start], UNCHANGED branch,
                      IF run.stage THEN "add" ELSE "status")
    /\ UNCHANGED <<tracking, remote, tree, index, fresh, runs, pushed>>

Add ==
    /\ At("add")
    /\ Command(index' = index \cup tree /\ tree' = {}, UNCHANGED <<index, tree>>, "status")
    /\ UNCHANGED <<branch, tracking, remote, fresh, runs, pushed>>

(* git status lists what is not staged as well. *)
Status ==
    /\ At("status")
    /\ \/ GoesTo(IF index \cup tree # {} THEN "commit" ELSE IF run.push THEN "push" ELSE "head")
       \/ Ends
    /\ UNCHANGED <<branch, tracking, remote, tree, index, fresh, runs, pushed>>

(* A commit of nothing fails. *)
Commit ==
    /\ At("commit")
    /\ \/ /\ index # {}
          /\ branch' = [branch EXCEPT ![run.to] = Append(@, index)]
          /\ index' = {}
          /\ \/ run' = [run EXCEPT !.commit = index, !.pc = IF run.push THEN "push" ELSE "head"]
             \/ Ends
       \/ Ends /\ UNCHANGED <<branch, index>>
    /\ UNCHANGED <<tracking, remote, tree, fresh, runs, pushed>>

AnyPush(old, new) == TRUE   \* mutated

(* A push that is not forced is taken only if it adds to the branch. *)
FastForward(old, new) == old = None \/ IsPrefix(old, new)

Push ==
    /\ At("push")
    /\ LET new == branch[run.to]
           b   == run.to
       IN  IF FastForward(remote[b], new)
             THEN Command(/\ remote' = [remote EXCEPT ![b] = new]
                          /\ tracking' = [tracking EXCEPT ![b] = new],
                          UNCHANGED <<remote, tracking>>, "head")
             ELSE Ends /\ UNCHANGED <<remote, tracking>>
    /\ UNCHANGED <<branch, tree, index, fresh, runs, pushed>>

(* git rev-parse, and the round of the model, which may be required; then  *)
(* the worker answers that it is done.                                     *)
RevParse ==
    /\ At("head")
    /\ \/ GoesTo(IF run.llm THEN "llm" ELSE "done")
       \/ Ends
    /\ UNCHANGED <<branch, tracking, remote, tree, index, fresh, runs, pushed>>

Round ==
    /\ At("llm")
    /\ GoesTo("done") \/ Ends
    /\ UNCHANGED <<branch, tracking, remote, tree, index, fresh, runs, pushed>>

ReportDone ==
    /\ At("done")
    /\ pushed' = IF run.push /\ run.commit # {}
                   THEN pushed \cup {[to |-> run.to, commit |-> run.commit]} ELSE pushed
    /\ Ends
    /\ UNCHANGED <<branch, tracking, remote, tree, index, fresh, runs>>

-----------------------------------------------------------------------------
(* Executors edit the tree; others push, by the same rule.                 *)

EditTree ==
    /\ \E e \in fresh : tree' = tree \cup {e} /\ fresh' = fresh \ {e}
    /\ UNCHANGED <<branch, tracking, remote, index, run, runs, pushed>>

OthersPush ==
    /\ \E b \in Branches, e \in fresh :
          /\ remote[b] # None
          /\ remote' = [remote EXCEPT ![b] = Append(@, {e})]
          /\ fresh' = fresh \ {e}
    /\ UNCHANGED <<branch, tracking, tree, index, run, runs, pushed>>

OthersMerge ==
    /\ \E b \in Branches, c \in Branches :
          /\ remote[b] # None /\ remote[c] # None
          /\ remote[b] # remote[c] /\ FastForward(remote[b], remote[c])
          /\ remote' = [remote EXCEPT ![b] = remote[c]]
    /\ UNCHANGED <<branch, tracking, tree, index, fresh, run, runs, pushed>>

GitInit ==
    /\ remote = [b \in Branches |-> IF b = Main THEN <<>> ELSE None]
    /\ branch = remote /\ tracking = remote
    /\ tree = {} /\ index = {} /\ fresh = Edits
    /\ run = NoRun /\ runs = 0
    /\ pushed = {}

GitNext ==
    \/ AskRun \/ Fetch \/ Checkout \/ Add \/ Status \/ Commit \/ Push \/ RevParse \/ Round
    \/ ReportDone
    \/ EditTree \/ OthersPush \/ OthersMerge
-----------------------------------------------------------------------------
(* What the worker answered as done and pushed stays on the branch of the  *)
(* remote, although every run resets its branch first and later runs use   *)
(* the same one (cpp-ia-worker/app.py:223-279).                            *)
DoneWorkStaysPublished ==
    \A p \in pushed : remote[p.to] # None /\ Contains(remote[p.to], p.commit)
=============================================================================
