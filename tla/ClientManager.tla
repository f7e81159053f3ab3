---------------------------- MODULE ClientManager ----------------------------
(***************************************************************************)
(* clientmgr.cpp: one process that runs a client in each of n threads.     *)
(* They share the flag running and the counter of saved files.  main       *)
(* starts a thread every 200 ms as long as running holds, then joins all   *)
(* n of them, started or not.                                              *)
(***************************************************************************)
EXTENDS Integers, FiniteSets

CONSTANT N  \* n, the number of clients

ASSUME NAssumption == N \in Nat \ {0}

Thread == 0 .. (N - 1)

VARIABLES running,     \* the flag all threads watch
          main,        \* where main() is: "test", "sleep", "join", or its end
          started,     \* threads started, the i of main()'s loops
          joined,      \* threads joined
          thread,      \* "none", "loop", "count" (in file_saved) or "done"
          saved,       \* _saved_file of each client
          completed,   \* n_completed_ctr
          interrupted  \* history: running was cleared other than by completion

managerVars == <<running, main, started, joined, thread, saved, completed,
                 interrupted>>

\* The test of the loop that starts threads, and of the one that joins them.
Test ==
  /\ main = "test"
  /\ main' = IF started < N /\ running THEN "sleep" ELSE "join"
  /\ UNCHANGED <<running, started, joined, thread, saved, completed, interrupted>>

\* The client is constructed after the sleep.  If it cannot connect running is
\* cleared, but its thread is started all the same.
Start(connected) ==
  /\ main = "sleep"
  /\ running' = (running /\ connected)
  /\ interrupted' = (interrupted \/ ~connected)
  /\ thread' = [thread EXCEPT ![started] = "loop"]
  /\ started' = started + 1
  /\ main' = "test"
  /\ UNCHANGED <<joined, saved, completed>>

\* Joining a thread that was never started throws, and nobody catches it.
Join ==
  /\ main = "join"
  /\ \/ /\ joined = N
        /\ main' = "exit"
        /\ UNCHANGED joined
     \/ /\ joined < N /\ thread[joined] = "none"
        /\ main' = "abort"
        /\ UNCHANGED joined
     \/ /\ joined < N /\ thread[joined] = "done"
        /\ joined' = joined + 1
        /\ UNCHANGED main
  /\ UNCHANGED <<running, started, thread, saved, completed, interrupted>>

Ended == main \in {"exit", "abort"}

-----------------------------------------------------------------------------
(***************************************************************************)
(* Steps of client i in its thread.                                        *)
(***************************************************************************)
\* save_file, once its last chunk arrives, and file_saved, which counts and then compares.
SaveFile(i) ==
  /\ ~Ended /\ thread[i] = "loop" /\ ~saved[i]
  /\ saved' = [saved EXCEPT ![i] = TRUE]
  /\ completed' = completed + 1
  /\ thread' = [thread EXCEPT ![i] = "count"]
  /\ UNCHANGED <<running, main, started, joined, interrupted>>

\* Variants: comparing with the threads that run so far, and off by one.
CompletedSoFar == completed = started
CompletedMore == completed > N
AllCompleted == completed = N

FileSaved(i) ==
  /\ ~Ended /\ thread[i] = "count"
  /\ running' = (running /\ ~AllCompleted)
  /\ thread' = [thread EXCEPT ![i] = "loop"]
  /\ UNCHANGED <<main, started, joined, saved, completed, interrupted>>

\* disconnected(), when the server is gone.  In the earlier version of the
\* program the call is commented out.
NotNoticed == running
Noticed == FALSE

Disconnected(i) ==
  /\ ~Ended /\ thread[i] = "loop"
  /\ running' = Noticed
  /\ interrupted' = TRUE
  /\ UNCHANGED <<main, started, joined, thread, saved, completed>>

\* run() ends at the test of its loop.
RunEnds(i) ==
  /\ ~Ended /\ thread[i] = "loop" /\ ~running
  /\ thread' = [thread EXCEPT ![i] = "done"]
  /\ UNCHANGED <<running, main, started, joined, saved, completed, interrupted>>

\* SIGINT or SIGTERM.  If it interrupts kevent in a thread's loop, get_events
\* takes the -1 returned for a length, which throws, and nobody catches it.
Signal ==
  /\ ~Ended /\ running
  /\ running' = FALSE
  /\ interrupted' = TRUE
  /\ \/ UNCHANGED main
     \/ (\E i \in Thread : thread[i] = "loop") /\ main' = "abort"
  /\ UNCHANGED <<started, joined, thread, saved, completed>>

ManagerInit ==
  /\ running = TRUE
  /\ main = "test"
  /\ started = 0
  /\ joined = 0
  /\ thread = [i \in Thread |-> "none"]
  /\ saved = [i \in Thread |-> FALSE]
  /\ completed = 0
  /\ interrupted = FALSE
=============================================================================
