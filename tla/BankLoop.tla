------------------------------ MODULE BankLoop ------------------------------
(***************************************************************************)
(* The main loop of the bank (bank/bank-main.c): select() waits for the    *)
(* console or the socket, a ready console is served first, with fgets().   *)
(* select() sees what is left in the kernel; fgets() takes lines from the  *)
(* buffer of stdio, which it fills with everything the kernel has.  What a *)
(* command or a request does is the business of Bank.                      *)
(***************************************************************************)
EXTENDS Naturals

CONSTANTS
  MaxLines,     \* bound of the model: commands typed
  MaxRequests   \* bound of the model: requests arriving

ASSUME BankLoopAssumption ==
  MaxLines \in Nat /\ MaxRequests \in Nat

VARIABLES
  terminal,     \* stdin is a terminal, which hands over one line per read
  inKernel,     \* lines written to stdin and not read
  inStdio,      \* lines in the buffer of stdio
  eof,          \* stdin is at its end behind those lines
  onSocket,     \* datagrams in the receive buffer
  typed,        \* history: lines written so far
  processed,    \* history: commands processed
  arrived,      \* history: datagrams that arrived
  running       \* FALSE once main has returned

loopVars == <<terminal, inKernel, inStdio, eof, onSocket, typed, processed, arrived, running>>

\* The other end of stdin: a line is written, or the end is reached.
TypeLine ==
  /\ running /\ ~eof /\ typed < MaxLines
  /\ typed' = typed + 1 /\ inKernel' = inKernel + 1
  /\ UNCHANGED <<terminal, inStdio, eof, onSocket, processed, arrived, running>>

Close ==
  /\ running /\ ~eof
  /\ eof' = TRUE
  /\ UNCHANGED <<terminal, inKernel, inStdio, onSocket, typed, processed, arrived, running>>

Arrive ==
  /\ running /\ arrived < MaxRequests
  /\ arrived' = arrived + 1 /\ onSocket' = onSocket + 1
  /\ UNCHANGED <<terminal, inKernel, inStdio, eof, typed, processed, running>>

-----------------------------------------------------------------------------

\* FD_ISSET(0, &fds)
ConsoleReady == running /\ (inKernel > 0 \/ eof)

\* The line fgets returns is in the buffer already, ...
NextBuffered ==
  /\ ConsoleReady /\ inStdio > 0
  /\ inStdio' = inStdio - 1 /\ processed' = processed + 1
  /\ UNCHANGED <<terminal, inKernel, eof, onSocket, typed, arrived, running>>

\* Faulty variant: what was read along with the line is thrown away.
FillDiscarding ==
  /\ ConsoleReady /\ inStdio = 0 /\ inKernel > 0
  /\ inKernel' = 0 /\ inStdio' = 0
  /\ processed' = processed + 1
  /\ UNCHANGED <<terminal, eof, onSocket, typed, arrived, running>>

\* ... or is the first of those read into the empty buffer, ...
Fill ==
  /\ ConsoleReady /\ inStdio = 0 /\ inKernel > 0
  /\ LET read == IF terminal THEN 1 ELSE inKernel
     IN  inKernel' = inKernel - read /\ inStdio' = read - 1
  /\ processed' = processed + 1
  /\ UNCHANGED <<terminal, eof, onSocket, typed, arrived, running>>

\* Faulty variant: the loop ends as soon as the kernel has no more input.
ExitAtEof ==
  /\ ConsoleReady /\ inKernel = 0
  /\ running' = FALSE
  /\ UNCHANGED <<terminal, inKernel, inStdio, eof, onSocket, typed, processed, arrived>>

\* ... or there is none, and the loop ends.
Exit ==
  /\ ConsoleReady /\ inStdio = 0 /\ inKernel = 0
  /\ running' = FALSE
  /\ UNCHANGED <<terminal, inKernel, inStdio, eof, onSocket, typed, processed, arrived>>

ServeConsole == NextBuffered \/ Fill \/ Exit

\* Faulty variant: the socket is looked at only together with the console.
ServeRequestAfterCommand ==
  /\ ConsoleReady /\ onSocket > 0
  /\ onSocket' = onSocket - 1
  /\ UNCHANGED <<terminal, inKernel, inStdio, eof, typed, processed, arrived, running>>

\* The socket is served only when the console is not ready.
ServeRequest ==
  /\ running /\ ~ConsoleReady /\ onSocket > 0
  /\ onSocket' = onSocket - 1
  /\ UNCHANGED <<terminal, inKernel, inStdio, eof, typed, processed, arrived, running>>

LoopInit ==
  /\ terminal \in BOOLEAN
  /\ inKernel = 0 /\ inStdio = 0 /\ eof = FALSE /\ onSocket = 0
  /\ typed = 0 /\ processed = 0 /\ arrived = 0 /\ running = TRUE

LoopNext == TypeLine \/ Close \/ Arrive \/ ServeConsole \/ ServeRequest

\* The loop keeps running; whoever types is under no obligation.
LoopSpec ==
  /\ LoopInit /\ [][LoopNext]_loopVars
  /\ WF_loopVars(ServeConsole) /\ WF_loopVars(ServeRequest)

-----------------------------------------------------------------------------
(* Properties.                                                             *)

\* Every command typed at a terminal is processed (bank.md), and so is every command
\* written to a pipe once the pipe is closed, however many were read at once.  As long
\* as it is open and nothing more is written, lines that were read ahead may wait.
CommandsAreProcessed ==
  \A n \in 1 .. MaxLines : typed >= n /\ (terminal \/ eof) ~> processed >= n

\* A request in the receive buffer is served once the console is quiet, unless the
\* bank stops first: no line left in the buffer of stdio keeps the socket waiting.
\* (MaxLines makes every console fall quiet; one that never does starves the ATM.)
RequestsAreServed ==
  \A n \in 1 .. MaxRequests : arrived >= n ~> arrived - onSocket >= n \/ ~running

\* The end of stdin loses no command: the loop ends only after the last one,
\* even when several were read at once.
NothingLostAtEof ==
  ~running => processed = typed

=============================================================================
