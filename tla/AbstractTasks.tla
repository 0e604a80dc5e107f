--------------------------- MODULE AbstractTasks ---------------------------
(***************************************************************************)
(* What the multitasking library promises: the main program and each task  *)
(* is a world with its own control position, its own locals and its own    *)
(* pending operands.  One world runs at a time; no other world changes     *)
(* while it does, and a world resumes exactly where it stopped.            *)
(***************************************************************************)
EXTENDS Integers, Sequences

CONSTANTS Slots,          \* the task slots
          Main,           \* the program that calls run-tasks
          None            \* the value of an unset binding

VARIABLES world,          \* world -> [pc, locals, held]
          status,         \* slot -> "runnable" | "finished" | "empty"
          running,        \* <<w>>: world w runs; << >>: the scheduler chooses
          global          \* the one binding every world shares

vars == <<world, status, running, global>>

Fresh == [pc |-> 0, locals |-> << >>, held |-> << >>]

Init == /\ world = [w \in Slots \cup {Main} |-> Fresh]
        /\ status = [s \in Slots |-> "empty"]
        /\ running = <<Main>>
        /\ global = None

Runs(w) == running = <<w>>

OnlyChanges(w) == world' = [world EXCEPT ![w] = world'[w]]

(* The running world evaluates: it alone changes, never backwards. *)
Act(w) == /\ Runs(w)
          /\ OnlyChanges(w)
          /\ world'[w].pc \in {world[w].pc, world[w].pc + 1}
          /\ UNCHANGED <<status, running>>

Spawn(w, s) == /\ Runs(w)
               /\ status[s] = "empty"
               /\ status' = [status EXCEPT ![s] = "runnable"]
               /\ world' = [world EXCEPT ![w].pc = @ + 1, ![s] = Fresh]
               /\ UNCHANGED <<running, global>>

(* run-tasks in the main program, or yield in a task. *)
Suspend(w) == /\ Runs(w)
              /\ running' = <<>>
              /\ world' = [world EXCEPT ![w].pc = @ + 1]
              /\ UNCHANGED <<status, global>>

Finish(w) == /\ Runs(w)
             /\ w \in Slots
             /\ status' = [status EXCEPT ![w] = "finished"]
             /\ running' = <<>>
             /\ UNCHANGED global
             /\ \A v \in Slots \cup {Main} : v # w => world'[v] = world[v]

Resume(s) == /\ running = <<>>
             /\ status[s] = "runnable"
             /\ running' = <<s>>
             /\ UNCHANGED <<world, status, global>>

AllDone == /\ running = <<>>
           /\ \A s \in Slots : status[s] # "runnable"
           /\ running' = <<Main>>
           /\ UNCHANGED <<world, status, global>>

Next == \/ \E w \in Slots \cup {Main} :
              Act(w) \/ Suspend(w) \/ Finish(w) \/ (\E s \in Slots : Spawn(w, s))
        \/ \E s \in Slots : Resume(s)
        \/ AllDone

Spec == Init /\ [][Next]_vars
=============================================================================
