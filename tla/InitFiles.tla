----------------------------- MODULE InitFiles ------------------------------
(***************************************************************************)
(* The init program (init.c, and init/init-main.c of the archived          *)
(* submission): draws a key and writes it to <name>.bank and <name>.atm,   *)
(* from which the bank and the ATM load it when they start.  Each element  *)
(* of Process is one invocation with the same argument; it may be killed   *)
(* between any two system calls.  The key an invocation draws is named     *)
(* after it.                                                               *)
(*                                                                         *)
(* Any number of invocations run at the same time.  The archived program   *)
(* opens each file exclusively and looks at the result of every call; the  *)
(* program in the root directory looks with access() and opens later, so   *)
(* that what its properties promise depends on which invocations met.      *)
(***************************************************************************)
EXTENDS Naturals

CONSTANTS
  Process,      \* invocations of init
  NoFile,       \* content of a file that does not exist
  Empty         \* content of a file created and not written in full

ASSUME InitAssumption == NoFile \notin Process /\ Empty \notin Process /\ NoFile # Empty

VARIABLES
  version,      \* which of the two programs is run: "root" or "archived"
  file,         \* contents of the two files
  pc,           \* per invocation, the system call it is about to make
  streams,      \* per invocation, the files it has opened and not written yet
  exit,         \* per invocation, its exit status, or Running
  loaded,       \* the keys that banks and ATMs have loaded, per file
  met           \* history: per invocation, those under way at the same time

vars == <<version, file, pc, streams, exit, loaded, met>>

File    == {"bank", "atm"}
Running == 99

Finish(p, status) ==
  /\ pc' = [pc EXCEPT ![p] = "done"]
  /\ exit' = [exit EXCEPT ![p] = status]

Goto(p, call) == pc' = [pc EXCEPT ![p] = call] /\ UNCHANGED exit

UnderWay(p) == pc[p] \notin {"start", "done"}

Meet(p) ==
  met' = [q \in Process |-> IF q = p THEN {r \in Process : UnderWay(r)}
                            ELSE IF UnderWay(q) THEN met[q] \cup {p} ELSE met[q]]

\* The two names are built, or there is no memory for them.
Start(p) ==
  /\ pc[p] = "start"
  /\ \/ Goto(p, "access bank") /\ Meet(p)
     \/ Finish(p, 64) /\ UNCHANGED met
  /\ UNCHANGED <<file, streams>>

\* Faulty variant: an existing .atm file goes unnoticed.
AccessBankOnly(p) ==
  /\ \/ /\ pc[p] = "access bank"
        /\ IF file["bank"] = NoFile THEN Goto(p, "access atm") ELSE Finish(p, 63)
     \/ pc[p] = "access atm" /\ Goto(p, "rand")
  /\ UNCHANGED <<file, streams>>

\* Faulty variant: the files are not looked at.
AccessNeither(p) ==
  /\ \/ pc[p] = "access bank" /\ Goto(p, "access atm")
     \/ pc[p] = "access atm" /\ Goto(p, "rand")
  /\ UNCHANGED <<file, streams>>

\* access(bank_file) == 0 || access(atm_file) == 0
Access(p) ==
  /\ \/ /\ pc[p] = "access bank"
        /\ IF file["bank"] = NoFile THEN Goto(p, "access atm") ELSE Finish(p, 63)
     \/ /\ pc[p] = "access atm"
        /\ IF file["atm"] = NoFile THEN Goto(p, "rand") ELSE Finish(p, 63)
  /\ UNCHANGED <<file, streams>>

DrawKey(p) ==
  /\ pc[p] = "rand"
  /\ Goto(p, "open bank") \/ Finish(p, 64)
  /\ UNCHANGED <<file, streams>>

-----------------------------------------------------------------------------
(* The program in the root directory.                                      *)

\* fopen(f, "w") creates or truncates, or fails and leaves the file alone.
Open(p, f) ==
  /\ version = "root"
  /\ \/ file' = [file EXCEPT ![f] = Empty] /\ streams' = [streams EXCEPT ![p] = @ \cup {f}]
     \/ UNCHANGED <<file, streams>>

OpenBank(p) == pc[p] = "open bank" /\ Open(p, "bank") /\ Goto(p, "open atm")

\* Both files are opened before either result is looked at.
OpenAtm(p) ==
  /\ pc[p] = "open atm" /\ Open(p, "atm")
  /\ IF streams'[p] = File THEN Goto(p, "close bank") ELSE Finish(p, 64)

\* The key is in the stdio buffer; fclose writes it at the start of the file, over
\* what others may have written there, or fails (a full disk).  Its result is not
\* looked at.
Close(p, f) ==
  /\ version = "root"
  /\ file' \in {file, [file EXCEPT ![f] = p]}
  /\ streams' = [streams EXCEPT ![p] = @ \ {f}]

CloseBank(p) == pc[p] = "close bank" /\ Close(p, "bank") /\ Goto(p, "close atm")

CloseAtm(p) == pc[p] = "close atm" /\ Close(p, "atm") /\ Finish(p, 0)

-----------------------------------------------------------------------------
(* The archived program: create_file_with_key, for one file and then the   *)
(* other.                                                                  *)

\* Faulty variant: the file is opened without O_EXCL.
CreateTruncating(p, f, next) ==
  /\ \/ /\ file' = [file EXCEPT ![f] = Empty]
        /\ streams' = [streams EXCEPT ![p] = @ \cup {f}]
        /\ Goto(p, next)
     \/ UNCHANGED <<file, streams>> /\ Finish(p, 64)

\* open(f, O_CREAT | O_EXCL) fails when the file is there, and may fail otherwise.
Create(p, f, next) ==
  /\ \/ /\ file[f] = NoFile
        /\ file' = [file EXCEPT ![f] = Empty]
        /\ streams' = [streams EXCEPT ![p] = @ \cup {f}]
        /\ Goto(p, next)
     \/ UNCHANGED <<file, streams>> /\ Finish(p, 64)

\* Faulty variant: the results of fprintf and fclose are not looked at.
WriteUnchecked(p, f, next) ==
  /\ streams' = [streams EXCEPT ![p] = @ \ {f}]
  /\ file' \in {file, [file EXCEPT ![f] = p]}
  /\ IF next = "done" THEN Finish(p, 0) ELSE Goto(p, next)

\* fdopen, fprintf and fclose: the key is written, or one of them fails.
Write(p, f, next) ==
  /\ streams' = [streams EXCEPT ![p] = @ \ {f}]
  /\ \/ /\ file' = [file EXCEPT ![f] = p]
        /\ IF next = "done" THEN Finish(p, 0) ELSE Goto(p, next)
     \/ UNCHANGED file /\ Finish(p, 64)

CreateFiles(p) ==
  /\ version = "archived"
  /\ \/ pc[p] = "open bank"  /\ Create(p, "bank", "write bank")
     \/ pc[p] = "write bank" /\ Write(p, "bank", "open atm")
     \/ pc[p] = "open atm"   /\ Create(p, "atm", "write atm")
     \/ pc[p] = "write atm"  /\ Write(p, "atm", "done")

-----------------------------------------------------------------------------

\* The invocation is killed.
Kill(p) ==
  /\ pc[p] \notin {"start", "done"}
  /\ pc' = [pc EXCEPT ![p] = "done"]
  /\ UNCHANGED <<file, streams, exit>>

\* A bank or an ATM starts and reads its file: it is refused unless it holds a
\* whole key.
Load(f) ==
  /\ file[f] \in Process
  /\ loaded' = [loaded EXCEPT ![f] = @ \cup {file[f]}]
  /\ UNCHANGED <<file, pc, streams, exit>>

Init ==
  /\ version \in {"root", "archived"}
  /\ file = [f \in File |-> NoFile]
  /\ pc = [p \in Process |-> "start"]
  /\ streams = [p \in Process |-> {}]
  /\ exit = [p \in Process |-> Running]
  /\ loaded = [f \in File |-> {}]
  /\ met = [p \in Process |-> {}]

Invocation(p) ==
  \/ Start(p)
  \/ /\ \/ Access(p) \/ DrawKey(p)
        \/ OpenBank(p) \/ OpenAtm(p)
        \/ CloseBank(p) \/ CloseAtm(p)
        \/ CreateFiles(p)
        \/ Kill(p)
     /\ UNCHANGED met

Next ==
  /\ \/ \E p \in Process : Invocation(p) /\ UNCHANGED loaded
     \/ \E f \in File : Load(f) /\ UNCHANGED met
  /\ UNCHANGED version

Spec == Init /\ [][Next]_vars

-----------------------------------------------------------------------------
(* Properties.                                                             *)

\* What a file may hold because of those that an invocation of the root program
\* met between its access() and its fopen().
OfCompany(p) ==
  IF version = "root" /\ met[p] # {} THEN met[p] \cup {Empty} ELSE {}

\* A file that exists is not opened for writing, not even an empty one left behind
\* by an invocation that failed or was killed (init.md).  Only the root program
\* does it, and only to a file of an invocation it met: one that was complete or
\* abandoned before an invocation started is safe from that invocation.
NeverWrittenOver ==
  [][\A p \in Process, f \in File :
       f \in streams'[p] \ streams[p] => file[f] \in {NoFile} \cup OfCompany(p)]_vars

\* When an invocation reports success, both files hold its key, and they keep it for
\* ever.  In the root program a write may have failed unnoticed, and the key be that
\* of an invocation this one met; nobody else touches the files afterwards.
SuccessIsKept ==
  [][\A p \in Process, f \in File :
       exit'[p] = 0 =>
         /\ file'[f] \in {p} \cup IF version = "root" THEN met'[p] \cup {Empty} ELSE {}
         /\ exit[p] = 0 /\ file'[f] # file[f] =>
              version = "root" /\ \E q \in met[p] : pc'[q] # pc[q]]_vars

\* Any two banks or ATMs that have started hold the same key, whichever invocations
\* failed or were killed before, between and after their starts.  If they do not,
\* the keys are those of two invocations of the root program that met.
KeysAgree ==
  \A k, l \in loaded["bank"] \cup loaded["atm"] :
    k = l \/ (version = "root" /\ l \in met[k])

=============================================================================
