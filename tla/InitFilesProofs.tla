--------------------------- MODULE InitFilesProofs ---------------------------
(***************************************************************************)
(* Theorems about init, for every number of invocations of either program, *)
(* however they overlap: when files are written over, whose keys they hold *)
(* and which keys are handed out.                                          *)
(***************************************************************************)
EXTENDS InitFiles, TLAPS

-----------------------------------------------------------------------------
(* The inductive invariant.                                                *)

Call ==
  {"start", "access bank", "access atm", "rand", "open bank", "open atm",
   "close bank", "close atm", "write bank", "write atm", "done"}

TypeInv ==
  /\ version \in {"root", "archived"}
  /\ file \in [File -> Process \cup {NoFile, Empty}]
  /\ pc \in [Process -> Call]
  /\ streams \in [Process -> SUBSET File]
  /\ exit \in [Process -> {0, 63, 64, Running}]
  /\ loaded \in [File -> SUBSET Process]
  /\ met \in [Process -> SUBSET Process]

\* Those under way now have met, and meeting is mutual.
MetInv ==
  /\ \A p \in Process : pc[p] = "start" => met[p] = {}
  /\ \A p, q \in Process : p # q /\ UnderWay(p) /\ UnderWay(q) => q \in met[p]
  /\ \A p, q \in Process : q \in met[p] => p \in met[q]

\* It has seen that there was no .bank file.
Looking(p) == pc[p] \in {"access atm", "rand", "open bank", "open atm"}

\* It opened both files: it is about to write them, it succeeded, or its key is
\* somewhere.
HasOpened(p) ==
  \/ pc[p] \in {"close bank", "close atm"}
  \/ exit[p] = 0
  \/ \E f \in File : p \in loaded[f] \/ file[f] = p

\* An invocation that opened the files met everyone who found them absent: those who
\* came later found them there.
RootInv ==
  /\ \A p \in Process : exit[p] = 0 => pc[p] = "done"
  /\ \A p \in Process : \A f \in streams[p] : file[f] # NoFile
  /\ \A p \in Process : HasOpened(p) =>
       pc[p] \in {"close bank", "close atm", "done"} /\ \A f \in File : file[f] # NoFile
  /\ \A p, q \in Process :
       p # q /\ HasOpened(p) /\ (Looking(q) \/ HasOpened(q)) => q \in met[p]
  /\ \A p \in Process :
       /\ pc[p] \in {"access atm", "rand", "open bank"} /\ file["bank"] # NoFile =>
            met[p] # {}
       /\ pc[p] \in {"rand", "open bank", "open atm"} /\ file["atm"] # NoFile =>
            met[p] # {}

\* Of the archived program one invocation creates each file, and nobody comes to the
\* second file without having written the first.
ArchivedInv ==
  /\ file["atm"] # NoFile => file["bank"] \in Process
  /\ file["atm"] \in Process => file["bank"] = file["atm"]
  /\ \A p, q \in Process : pc[p] = "write bank" /\ pc[q] = "write bank" => p = q
  /\ \A p \in Process :
       /\ pc[p] = "write bank" => file["bank"] = Empty
       /\ pc[p] \in {"open atm", "write atm"} => file["bank"] = p
       /\ pc[p] = "write atm" => file["atm"] = Empty

\* Success leaves the files of the invocation, and a key once loaded is the key still
\* in the file.
KeptInv ==
  /\ \A p \in Process : exit[p] = 0 => pc[p] = "done" /\ \A f \in File : file[f] = p
  /\ \A f \in File : \A k \in loaded[f] : file[f] = k
  /\ file["bank"] \in Process /\ file["atm"] \in Process => file["bank"] = file["atm"]

Inv ==
  /\ TypeInv /\ MetInv
  /\ version = "root" => RootInv
  /\ version = "archived" => ArchivedInv /\ KeptInv

\* The variables are functions, whose entries a step changes one at a time.
LEMMA PcEntry ==
  ASSUME TypeInv, NEW p \in Process, NEW c \in Call, pc' = [pc EXCEPT ![p] = c]
  PROVE  /\ pc' \in [Process -> Call] /\ pc'[p] = c
         /\ \A q \in Process : q # p => pc'[q] = pc[q]
BY DEF TypeInv

LEMMA ExitEntry ==
  ASSUME TypeInv, NEW p \in Process, NEW x \in {0, 63, 64, Running},
         exit' = [exit EXCEPT ![p] = x]
  PROVE  /\ exit' \in [Process -> {0, 63, 64, Running}] /\ exit'[p] = x
         /\ \A q \in Process : q # p => exit'[q] = exit[q]
BY DEF TypeInv

LEMMA FileEntry ==
  ASSUME TypeInv, NEW f \in File, NEW c \in Process \cup {NoFile, Empty},
         file' = [file EXCEPT ![f] = c]
  PROVE  /\ file' \in [File -> Process \cup {NoFile, Empty}] /\ file'[f] = c
         /\ \A g \in File : g # f => file'[g] = file[g]
BY DEF TypeInv

LEMMA StreamsEntry ==
  ASSUME TypeInv, NEW p \in Process, NEW S \in SUBSET File, streams' = [streams EXCEPT ![p] = S]
  PROVE  /\ streams' \in [Process -> SUBSET File] /\ streams'[p] = S
         /\ \A q \in Process : q # p => streams'[q] = streams[q]
BY DEF TypeInv

\* What the calls of a step do, entry by entry.
LEMMA Goes ==
  ASSUME TypeInv, NEW p \in Process, NEW c \in Call, Goto(p, c)
  PROVE  /\ pc' \in [Process -> Call] /\ exit' \in [Process -> {0, 63, 64, Running}]
         /\ pc'[p] = c /\ exit' = exit
         /\ \A q \in Process : q # p => pc'[q] = pc[q]
BY PcEntry DEF Goto, TypeInv

LEMMA Ends ==
  ASSUME TypeInv, NEW p \in Process, NEW x \in {0, 63, 64, Running}, Finish(p, x)
  PROVE  /\ pc' \in [Process -> Call] /\ exit' \in [Process -> {0, 63, 64, Running}]
         /\ pc'[p] = "done" /\ exit'[p] = x
         /\ \A q \in Process : q # p => pc'[q] = pc[q] /\ exit'[q] = exit[q]
<1>1. "done" \in Call
  BY DEF Call
<1>. QED
  BY <1>1, PcEntry, ExitEntry DEF Finish

Puts(f, c) ==
  /\ file' \in [File -> Process \cup {NoFile, Empty}] /\ file'[f] = c
  /\ \A g \in File : g # f => file'[g] = file[g]

Holds(p, S) ==
  /\ streams' \in [Process -> SUBSET File] /\ streams'[p] = S
  /\ \A q \in Process : q # p => streams'[q] = streams[q]

LEMMA Opens ==
  ASSUME TypeInv, NEW p \in Process, NEW f \in File,
         file' = [file EXCEPT ![f] = Empty], streams' = [streams EXCEPT ![p] = @ \cup {f}]
  PROVE  Puts(f, Empty) /\ Holds(p, streams[p] \cup {f})
<1>1. streams[p] \cup {f} \in SUBSET File
  BY DEF TypeInv
<1>. QED
  BY <1>1, FileEntry, StreamsEntry DEF Puts, Holds

LEMMA Closes ==
  ASSUME TypeInv, NEW p \in Process, NEW f \in File,
         streams' = [streams EXCEPT ![p] = @ \ {f}], file' \in {file, [file EXCEPT ![f] = p]}
  PROVE  /\ \/ Puts(f, file[f]) /\ file' = file
            \/ Puts(f, p)
         /\ Holds(p, streams[p] \ {f})
<1>1. streams[p] \ {f} \in SUBSET File
  BY DEF TypeInv
<1>2. Holds(p, streams[p] \ {f})
  BY <1>1, StreamsEntry DEF Holds
<1>3. CASE file' = file
  BY <1>2, <1>3 DEF Puts, TypeInv
<1>4. CASE file' = [file EXCEPT ![f] = p]
  BY <1>2, <1>4, FileEntry DEF Puts
<1>. QED
  BY <1>3, <1>4

LEMMA InitInv == Init => Inv
<1>. SUFFICES ASSUME Init PROVE Inv
  OBVIOUS
<1>1. TypeInv /\ MetInv
  BY DEF Init, TypeInv, MetInv, Call, File, UnderWay
<1>2. ASSUME NEW p \in Process PROVE ~ HasOpened(p) /\ ~ Looking(p)
  <2>1. pc[p] = "start" /\ exit[p] # 0
    BY DEF Init, Running
  <2>2. \A f \in File : p \notin loaded[f] /\ file[f] # p
    BY InitAssumption DEF Init
  <2>. QED
    BY <2>1, <2>2 DEF HasOpened, Looking
<1>3. RootInv /\ ArchivedInv /\ KeptInv
  BY <1>2, InitAssumption DEF Init, RootInv, ArchivedInv, KeptInv, File, Running
<1>. QED
  BY <1>1, <1>3 DEF Inv

-----------------------------------------------------------------------------
(* Steps of both programs.                                                 *)

\* Only the entries of one invocation change.
Alone(p) ==
  /\ pc' \in [Process -> Call] /\ exit' \in [Process -> {0, 63, 64, Running}]
  /\ \A q \in Process : q # p => pc'[q] = pc[q] /\ exit'[q] = exit[q]

LEMMA Fails ==
  ASSUME TypeInv, NEW p \in Process, Finish(p, 63) \/ Finish(p, 64)
  PROVE  Alone(p) /\ pc'[p] = "done" /\ exit'[p] # 0
<1>1. CASE Finish(p, 63)
  <2>1. Alone(p) /\ pc'[p] = "done" /\ exit'[p] = 63
    BY <1>1, Ends DEF Alone
  <2>. QED
    BY <2>1
<1>2. CASE Finish(p, 64)
  <2>1. Alone(p) /\ pc'[p] = "done" /\ exit'[p] = 64
    BY <1>2, Ends DEF Alone
  <2>. QED
    BY <2>1
<1>. QED
  BY <1>1, <1>2

\* Nobody becomes acquainted in the middle of an invocation.
LEMMA StillMet ==
  ASSUME TypeInv, MetInv, NEW p \in Process, UnderWay(p) \/ pc'[p] = "done", Alone(p),
         pc'[p] # "start", met' = met
  PROVE  MetInv'
BY DEF TypeInv, MetInv, Alone, UnderWay

\* A new invocation meets those under way.
LEMMA MeetStep ==
  ASSUME TypeInv, MetInv, NEW p \in Process, pc[p] = "start", pc'[p] = "access bank",
         Alone(p), Meet(p)
  PROVE  /\ MetInv' /\ met' \in [Process -> SUBSET Process]
         /\ \A q \in Process : met[q] \subseteq met'[q]
<1>1. /\ met' \in [Process -> SUBSET Process]
      /\ met'[p] = {r \in Process : UnderWay(r)}
      /\ \A q \in Process : q # p =>
           met'[q] = IF UnderWay(q) THEN met[q] \cup {p} ELSE met[q]
  BY DEF Meet, TypeInv
<1>2. met[p] = {} /\ ~ UnderWay(p) /\ \A q \in Process : p \notin met[q]
  BY DEF MetInv, UnderWay
<1>3. \A q \in Process : met[q] \subseteq met'[q]
  BY <1>1, <1>2
<1>4. \A q \in Process : q # p => (UnderWay(q)' <=> UnderWay(q)) /\ pc'[q] = pc[q]
  BY DEF Alone, UnderWay
<1>5. \A q \in Process : pc'[q] = "start" => met'[q] = {}
  <2>. SUFFICES ASSUME NEW q \in Process, pc'[q] = "start" PROVE met'[q] = {}
    OBVIOUS
  <2>1. q # p /\ pc[q] = "start" /\ ~ UnderWay(q)
    BY <1>4 DEF UnderWay
  <2>. QED
    BY <1>1, <2>1 DEF MetInv
<1>6. ASSUME NEW q \in Process, NEW r \in Process, q # r, UnderWay(q)', UnderWay(r)'
      PROVE  r \in met'[q]
  <2>1. CASE q = p
    BY <1>1, <1>4, <1>6, <2>1
  <2>2. CASE r = p
    BY <1>1, <1>4, <1>6, <2>2
  <2>3. CASE q # p /\ r # p
    BY <1>3, <1>4, <1>6, <2>3 DEF MetInv
  <2>. QED
    BY <2>1, <2>2, <2>3
<1>7. ASSUME NEW q \in Process, NEW r \in Process, r \in met'[q] PROVE q \in met'[r]
  <2>1. CASE q = p
    <3>1. UnderWay(r) /\ r # p
      BY <1>1, <1>2, <1>7, <2>1
    <3>. QED
      BY <1>1, <2>1, <3>1
  <2>2. CASE q # p /\ r = p
    <3>1. UnderWay(q)
      BY <1>1, <1>2, <1>7, <2>2
    <3>. QED
      BY <1>1, <2>2, <3>1
  <2>3. CASE q # p /\ r # p
    <3>1. r \in met[q]
      BY <1>1, <1>7, <2>3
    <3>2. q \in met[r]
      BY <3>1 DEF MetInv
    <3>. QED
      BY <1>3, <3>2
  <2>. QED
    BY <2>1, <2>2, <2>3
<1>. QED
  BY <1>1, <1>3, <1>5, <1>6, <1>7 DEF MetInv

\* An invocation starts.  It has done nothing yet.
LEMMA StartStep ==
  ASSUME Inv, NEW p \in Process, Start(p), UNCHANGED <<version, loaded>>
  PROVE  Inv' /\ UNCHANGED <<file, streams>>
<1>1. UNCHANGED <<version, loaded, file, streams>> /\ TypeInv /\ MetInv /\ pc[p] = "start"
  BY DEF Start, Inv
<1>2. /\ Alone(p) /\ pc'[p] \in {"access bank", "done"} /\ (exit'[p] = 0 => exit[p] = 0)
      /\ pc'[p] = "access bank" => exit'[p] = exit[p] /\ Meet(p)
      /\ pc'[p] = "done" => met' = met
  <2>1. CASE Goto(p, "access bank") /\ Meet(p)
    BY <1>1, <2>1, Goes DEF Alone, Call
  <2>2. CASE Finish(p, 64) /\ UNCHANGED met
    BY <1>1, <2>2, Fails
  <2>. QED
    BY <2>1, <2>2 DEF Start
<1>3. /\ MetInv' /\ met' \in [Process -> SUBSET Process]
      /\ \A q \in Process : met[q] \subseteq met'[q]
  <2>1. CASE pc'[p] = "access bank"
    BY <1>1, <1>2, <2>1, MeetStep
  <2>2. CASE pc'[p] = "done"
    BY <1>1, <1>2, <2>2, StillMet DEF TypeInv
  <2>. QED
    BY <1>2, <2>1, <2>2
<1>4. TypeInv'
  BY <1>1, <1>2, <1>3 DEF TypeInv, Alone
<1>5. ASSUME version = "root" PROVE RootInv'
  <2>1. RootInv
    BY <1>5 DEF Inv
  <2>2. \A q \in Process : q # p => pc'[q] = pc[q] /\ exit'[q] = exit[q]
    BY <1>2 DEF Alone
  <2>3. exit[p] # 0 /\ exit'[p] # 0
    <3>1. exit[p] # 0
      BY <1>1, <2>1 DEF RootInv
    <3>. QED
      BY <1>2, <3>1
  <2>4. ~ HasOpened(p) /\ ~ Looking(p)
    BY <1>1, <2>1 DEF RootInv, Looking
  <2>5. ~ HasOpened(p)' /\ ~ Looking(p)'
    BY <1>1, <1>2, <2>3, <2>4 DEF HasOpened, Looking
  <2>6. \A q \in Process : q # p => (HasOpened(q)' <=> HasOpened(q)) /\ (Looking(q)' <=> Looking(q))
    BY <1>1, <2>2 DEF HasOpened, Looking
  <2>7. \A q \in Process : /\ exit'[q] = 0 => pc'[q] = "done"
                          /\ \A f \in streams'[q] : file'[f] # NoFile
    BY <1>1, <2>1, <2>2, <2>3 DEF RootInv
  <2>8. \A q \in Process : HasOpened(q)' =>
          pc'[q] \in {"close bank", "close atm", "done"} /\ \A f \in File : file'[f] # NoFile
    BY <1>1, <2>1, <2>2, <2>5, <2>6 DEF RootInv
  <2>9. \A q, r \in Process :
          q # r /\ HasOpened(q)' /\ (Looking(r)' \/ HasOpened(r)') => r \in met'[q]
    <3>. SUFFICES ASSUME NEW q \in Process, NEW r \in Process, q # r, HasOpened(q)',
                         Looking(r)' \/ HasOpened(r)'
                  PROVE  r \in met'[q]
      OBVIOUS
    <3>1. HasOpened(q) /\ (Looking(r) \/ HasOpened(r))
      BY <2>5, <2>6
    <3>2. r \in met[q]
      BY <2>1, <3>1 DEF RootInv
    <3>. QED
      BY <1>3, <3>2
  <2>10. ASSUME NEW q \in Process
         PROVE  /\ pc'[q] \in {"access atm", "rand", "open bank"} /\ file'["bank"] # NoFile =>
                     met'[q] # {}
                /\ pc'[q] \in {"rand", "open bank", "open atm"} /\ file'["atm"] # NoFile =>
                     met'[q] # {}
    <3>1. CASE q = p
      BY <1>2, <3>1
    <3>2. CASE q # p
      BY <1>1, <1>3, <2>1, <2>2, <3>2 DEF RootInv
    <3>. QED
      BY <3>1, <3>2
  <2>. QED
    BY <2>7, <2>8, <2>9, <2>10 DEF RootInv
<1>6. ASSUME version = "archived" PROVE ArchivedInv' /\ KeptInv'
  <2>1. ArchivedInv /\ KeptInv /\ exit[p] # 0
    BY <1>1, <1>6 DEF Inv, KeptInv
  <2>2. \A q \in Process : q # p => pc'[q] = pc[q] /\ exit'[q] = exit[q]
    BY <1>2 DEF Alone
  <2>3. KeptInv'
    <3>1. exit'[p] # 0
      BY <1>2, <2>1
    <3>2. \A q \in Process : exit'[q] = 0 => pc'[q] = "done" /\ \A f \in File : file'[f] = q
      BY <1>1, <2>1, <2>2, <3>1 DEF KeptInv
    <3>. QED
      BY <1>1, <2>1, <3>2 DEF KeptInv
  <2>4. \A q \in Process :
          pc'[q] \in {"write bank", "open atm", "write atm"} => pc'[q] = pc[q]
    BY <1>2, <2>2
  <2>5. ArchivedInv'
    BY <1>1, <2>1, <2>4 DEF ArchivedInv
  <2>. QED
    BY <2>3, <2>5
<1>. QED
  BY <1>1, <1>3, <1>4, <1>5, <1>6 DEF Inv

\* Calls that leave the files alone: an invocation goes on, ends with an error, or is
\* killed.
LEMMA Calls ==
  ASSUME TypeInv, NEW p \in Process, Access(p) \/ DrawKey(p) \/ Kill(p)
  PROVE  /\ UNCHANGED <<file, streams>> /\ Alone(p) /\ UnderWay(p)
         /\ \/ pc'[p] = "done" /\ (exit'[p] = 0 => exit[p] = 0)
            \/ /\ exit'[p] = exit[p]
               /\ \/ pc[p] = "access bank" /\ pc'[p] = "access atm" /\ file["bank"] = NoFile
                  \/ pc[p] = "access atm" /\ pc'[p] = "rand" /\ file["atm"] = NoFile
                  \/ pc[p] = "rand" /\ pc'[p] = "open bank"
<1>1. UNCHANGED <<file, streams>> /\ UnderWay(p)
  BY DEF Access, DrawKey, Kill, UnderWay
<1>2. CASE Finish(p, 63) \/ Finish(p, 64)
  BY <1>1, <1>2, Fails
<1>3. CASE Goto(p, "done")
  BY <1>1, <1>3, Goes DEF Alone, Call
<1>4. CASE pc[p] = "access bank" /\ file["bank"] = NoFile /\ Goto(p, "access atm")
  BY <1>1, <1>4, Goes DEF Alone, Call
<1>5. CASE pc[p] = "access atm" /\ file["atm"] = NoFile /\ Goto(p, "rand")
  BY <1>1, <1>5, Goes DEF Alone, Call
<1>6. CASE pc[p] = "rand" /\ Goto(p, "open bank")
  BY <1>1, <1>6, Goes DEF Alone, Call
<1>. QED
  BY <1>2, <1>3, <1>4, <1>5, <1>6 DEF Access, DrawKey, Kill, Goto

-----------------------------------------------------------------------------
(* The root program.                                                       *)

\* What a step of an invocation of the root program may do.
RootMove(p) ==
  /\ UNCHANGED <<loaded, met>> /\ UnderWay(p) /\ Alone(p) /\ pc'[p] # pc[p]
  /\ exit'[p] = 0 => pc'[p] = "done" /\ pc[p] = "close atm"
  /\ pc[p] \in {"close bank", "close atm"} => pc'[p] \in {"close atm", "done"}
  /\ \A f \in File :
       \/ file'[f] = file[f]
       \/ file'[f] = Empty /\ Looking(p)
       \/ file'[f] = p /\ pc[p] \in {"close bank", "close atm"}
  /\ \A q \in Process : \A f \in streams'[q] : f \in streams[q] \/ file'[f] # NoFile
  /\ pc'[p] \in {"access atm", "rand", "open bank"} =>
       /\ file'["bank"] = file["bank"]
       /\ file["bank"] = NoFile \/ pc[p] \in {"access atm", "rand", "open bank"}
  /\ pc'[p] \in {"rand", "open bank", "open atm"} =>
       /\ file'["atm"] = file["atm"]
       /\ file["atm"] = NoFile \/ pc[p] \in {"rand", "open bank", "open atm"}
  /\ pc'[p] = "open atm" => pc[p] = "open bank"
  /\ pc'[p] \in {"close bank", "close atm"} =>
       \/ pc[p] \in {"close bank", "close atm"}
       \/ Looking(p) /\ \A f \in File : file'[f] # NoFile

LEMMA RootMoveKeeps ==
  ASSUME TypeInv, MetInv, RootInv, NEW p \in Process, RootMove(p)
  PROVE  RootInv'
<1>. USE DEF RootMove
<1>1. \A q \in Process : q # p => pc'[q] = pc[q] /\ exit'[q] = exit[q]
  BY DEF Alone
<1>2. \A f \in File : file[f] # NoFile => file'[f] # NoFile
  BY InitAssumption
<1>3. exit[p] # 0
  BY DEF RootInv, UnderWay
<1>4. ASSUME NEW q \in Process, HasOpened(q)'
      PROVE  \/ HasOpened(q)
             \/ q = p /\ Looking(p) /\ \A f \in File : file'[f] # NoFile
  <2>1. CASE q = p
    <3>1. CASE pc[p] \in {"close bank", "close atm"}
      BY <2>1, <3>1 DEF HasOpened
    <3>2. CASE pc'[p] \in {"close bank", "close atm"}
      BY <2>1, <3>1, <3>2
    <3>3. CASE exit'[p] = 0
      BY <3>1, <3>3
    <3>4. CASE \E f \in File : p \in loaded'[f] \/ file'[f] = p
      BY <2>1, <3>1, <3>4, InitAssumption DEF HasOpened
    <3>. QED
      BY <1>4, <2>1, <3>2, <3>3, <3>4 DEF HasOpened
  <2>2. CASE q # p
    <3>1. \A f \in File : file'[f] = q => file[f] = q
      BY <2>2, InitAssumption
    <3>. QED
      BY <1>1, <1>4, <2>2, <3>1 DEF HasOpened
  <2>. QED
    BY <2>1, <2>2
<1>5. ASSUME NEW q \in Process, Looking(q)' \/ HasOpened(q)'
      PROVE  Looking(q) \/ HasOpened(q) \/ (q = p /\ file["bank"] = NoFile)
  <2>1. CASE HasOpened(q)'
    BY <1>4, <2>1
  <2>2. CASE Looking(q)' /\ q # p
    BY <1>1, <2>2 DEF Looking
  <2>3. CASE Looking(q)' /\ q = p
    BY <2>3 DEF Looking
  <2>. QED
    BY <1>5, <2>1, <2>2, <2>3
<1>6. \A q \in Process : /\ exit'[q] = 0 => pc'[q] = "done"
                        /\ \A f \in streams'[q] : file'[f] # NoFile
  <2>1. ASSUME NEW q \in Process, exit'[q] = 0 PROVE pc'[q] = "done"
    <3>1. CASE q = p
      BY <2>1, <3>1
    <3>2. CASE q # p
      BY <1>1, <2>1, <3>2 DEF RootInv
    <3>. QED
      BY <3>1, <3>2
  <2>2. \A q \in Process : streams[q] \subseteq File
    BY DEF TypeInv
  <2>3. \A q \in Process : \A f \in streams'[q] : file'[f] # NoFile
    BY <1>2, <2>2 DEF RootInv
  <2>. QED
    BY <2>1, <2>3
<1>7. ASSUME NEW q \in Process, HasOpened(q)'
      PROVE  pc'[q] \in {"close bank", "close atm", "done"} /\ \A f \in File : file'[f] # NoFile
  <2>1. \A f \in File : file'[f] # NoFile
    BY <1>2, <1>4, <1>7 DEF RootInv
  <2>2. CASE q # p
    BY <1>1, <1>4, <1>7, <2>1, <2>2 DEF RootInv
  <2>3. CASE q = p
    <3>1. CASE HasOpened(p)
      <4>1. pc[p] \in {"close bank", "close atm"}
        BY <3>1 DEF RootInv, UnderWay
      <4>. QED
        BY <2>1, <2>3, <4>1
    <3>2. CASE ~ HasOpened(p)
      <4>1. pc[p] \notin {"close bank", "close atm"}
        BY <3>2 DEF HasOpened
      <4>2. exit'[p] # 0
        BY <4>1
      <4>3. \A f \in File : p \notin loaded'[f] /\ file'[f] # p
        BY <3>2, <4>1, InitAssumption DEF HasOpened
      <4>4. pc'[p] \in {"close bank", "close atm"}
        BY <1>7, <2>3, <4>2, <4>3 DEF HasOpened
      <4>. QED
        BY <2>1, <2>3, <4>4
    <3>. QED
      BY <3>1, <3>2
  <2>. QED
    BY <2>2, <2>3
<1>8. ASSUME NEW q \in Process, NEW r \in Process, q # r, HasOpened(q)',
             Looking(r)' \/ HasOpened(r)'
      PROVE  r \in met'[q]
  <2>1. CASE HasOpened(q)
    <3>1. file["bank"] # NoFile
      BY <2>1 DEF RootInv, File
    <3>2. Looking(r) \/ HasOpened(r)
      BY <1>5, <1>8, <3>1
    <3>. QED
      BY <1>8, <2>1, <3>2 DEF RootInv
  <2>2. CASE ~ HasOpened(q)
    <3>1. q = p /\ Looking(p)
      BY <1>4, <1>8, <2>2
    <3>2. CASE HasOpened(r)
      <4>1. p \in met[r]
        BY <1>8, <3>1, <3>2 DEF RootInv
      <4>. QED
        BY <3>1, <4>1 DEF MetInv
    <3>3. CASE Looking(r)
      <4>1. UnderWay(r)
        BY <3>3 DEF Looking, UnderWay
      <4>. QED
        BY <1>8, <3>1, <4>1 DEF MetInv
    <3>. QED
      BY <1>5, <1>8, <3>1, <3>2, <3>3
  <2>. QED
    BY <2>1, <2>2
<1>9. ASSUME NEW q \in Process
      PROVE  /\ pc'[q] \in {"access atm", "rand", "open bank"} /\ file'["bank"] # NoFile =>
                  met'[q] # {}
             /\ pc'[q] \in {"rand", "open bank", "open atm"} /\ file'["atm"] # NoFile =>
                  met'[q] # {}
  <2>1. CASE q = p
    BY <2>1 DEF RootInv
  <2>2. CASE q # p /\ UnderWay(q)
    BY <2>2 DEF MetInv
  <2>3. CASE q # p /\ ~ UnderWay(q)
    BY <1>1, <2>3 DEF UnderWay
  <2>. QED
    BY <2>1, <2>2, <2>3
<1>. QED
  BY <1>6, <1>7, <1>8, <1>9 DEF RootInv

\* Whose key a file may hold: that of somebody the invocation met, or nothing.
LEMMA Contents ==
  ASSUME TypeInv, MetInv, RootInv, NEW p \in Process, NEW f \in File,
         Looking(p) \/ HasOpened(p), file[f] # NoFile, file[f] # p
  PROVE  file[f] \in met[p] \cup {Empty}
<1>. SUFFICES ASSUME file[f] # Empty PROVE file[f] \in met[p]
  OBVIOUS
<1>1. file[f] \in Process /\ HasOpened(file[f])
  BY DEF TypeInv, HasOpened
<1>2. p \in met[file[f]]
  BY <1>1 DEF RootInv
<1>. QED
  BY <1>1, <1>2 DEF MetInv

\* The root program goes on, opens a file, or closes one.
LEMMA RootMoves ==
  ASSUME Inv, version = "root", NEW p \in Process, UNCHANGED <<version, loaded, met>>,
         \/ Access(p) \/ DrawKey(p) \/ Kill(p)
         \/ OpenBank(p) \/ OpenAtm(p) \/ CloseBank(p) \/ CloseAtm(p)
  PROVE  /\ RootMove(p) /\ TypeInv'
         /\ \A q \in Process, f \in File : f \in streams'[q] \ streams[q] =>
              /\ q = p
              /\ \/ f = "bank" /\ pc[p] = "open bank"
                 \/ f = "atm" /\ pc[p] = "open atm"
<1>1. TypeInv /\ MetInv /\ RootInv
  BY DEF Inv
<1>2. UnderWay(p) => exit[p] # 0
  BY <1>1 DEF RootInv, UnderWay
<1>3. CASE Access(p) \/ DrawKey(p) \/ Kill(p)
  <2>1. /\ UNCHANGED <<file, streams>> /\ Alone(p) /\ UnderWay(p)
        /\ \/ pc'[p] = "done" /\ (exit'[p] = 0 => exit[p] = 0)
           \/ /\ exit'[p] = exit[p]
              /\ \/ pc[p] = "access bank" /\ pc'[p] = "access atm" /\ file["bank"] = NoFile
                 \/ pc[p] = "access atm" /\ pc'[p] = "rand" /\ file["atm"] = NoFile
                 \/ pc[p] = "rand" /\ pc'[p] = "open bank"
    BY <1>1, <1>3, Calls
  <2>2. TypeInv'
    BY <1>1, <2>1 DEF TypeInv, Alone
  <2>3. RootMove(p)
    BY <1>2, <2>1 DEF RootMove, UnderWay
  <2>. QED
    BY <2>1, <2>2, <2>3
<1>4. ASSUME NEW f \in File, Open(p, f)
      PROVE  \/ Puts(f, Empty) /\ Holds(p, streams[p] \cup {f})
             \/ Puts(f, file[f]) /\ Holds(p, streams[p])
  <2>1. CASE /\ file' = [file EXCEPT ![f] = Empty]
             /\ streams' = [streams EXCEPT ![p] = @ \cup {f}]
    BY <1>1, <2>1, Opens
  <2>2. CASE UNCHANGED <<file, streams>>
    BY <1>1, <2>2 DEF Puts, Holds, TypeInv
  <2>. QED
    BY <1>4, <2>1, <2>2 DEF Open
<1>5. ASSUME NEW f \in File, Close(p, f)
      PROVE  (Puts(f, file[f]) \/ Puts(f, p)) /\ Holds(p, streams[p] \ {f})
  BY <1>1, <1>5, Closes DEF Close
<1>6. ASSUME NEW f \in File, Open(p, f), Alone(p)
      PROVE  /\ TypeInv'
             /\ \A g \in File : file'[g] = file[g] \/ (g = f /\ file'[g] = Empty)
             /\ \A q \in Process : \A g \in streams'[q] :
                  g \in streams[q] \/ (q = p /\ g = f /\ file'[g] # NoFile)
  <2>1. TypeInv'
    BY <1>1, <1>4, <1>6 DEF TypeInv, Puts, Holds, Alone
  <2>2. \A g \in File : file'[g] = file[g] \/ (g = f /\ file'[g] = Empty)
    BY <1>4, <1>6 DEF Puts
  <2>3. \A q \in Process : \A g \in streams'[q] :
          g \in streams[q] \/ (q = p /\ g = f /\ file'[g] # NoFile)
    BY <1>4, <1>6, InitAssumption DEF Puts, Holds
  <2>. QED
    BY <2>1, <2>2, <2>3
<1>7. ASSUME NEW f \in File, Close(p, f), Alone(p)
      PROVE  /\ TypeInv'
             /\ \A g \in File : file'[g] = file[g] \/ file'[g] = p
             /\ \A q \in Process : streams'[q] \subseteq streams[q]
  <2>1. TypeInv'
    BY <1>1, <1>5, <1>7 DEF TypeInv, Puts, Holds, Alone
  <2>2. \A g \in File : file'[g] = file[g] \/ file'[g] = p
    BY <1>5, <1>7 DEF Puts
  <2>3. \A q \in Process : streams'[q] \subseteq streams[q]
    BY <1>5, <1>7 DEF Holds
  <2>. QED
    BY <2>1, <2>2, <2>3
<1>8. CASE OpenBank(p)
  <2>1. /\ pc[p] = "open bank" /\ pc'[p] = "open atm" /\ exit'[p] = exit[p]
        /\ Alone(p) /\ Open(p, "bank")
    BY <1>1, <1>8, Goes DEF OpenBank, Alone, Call
  <2>2. /\ TypeInv'
        /\ \A g \in File : file'[g] = file[g] \/ (g = "bank" /\ file'[g] = Empty)
        /\ \A q \in Process : \A g \in streams'[q] :
             g \in streams[q] \/ (q = p /\ g = "bank" /\ file'[g] # NoFile)
    BY <1>6, <2>1 DEF File
  <2>3. RootMove(p)
    BY <1>2, <2>1, <2>2 DEF RootMove, UnderWay, Looking, File
  <2>. QED
    BY <2>1, <2>2, <2>3
<1>9. CASE OpenAtm(p)
  <2>1. pc[p] = "open atm" /\ Open(p, "atm") /\ UnderWay(p) /\ Looking(p)
    BY <1>9 DEF OpenAtm, UnderWay, Looking
  <2>2. /\ Alone(p)
        /\ \/ pc'[p] = "close bank" /\ exit'[p] = exit[p] /\ streams'[p] = File
           \/ pc'[p] = "done" /\ exit'[p] # 0
    <3>1. CASE streams'[p] = File
      BY <1>1, <1>9, <3>1, Goes DEF OpenAtm, Alone, Call
    <3>2. CASE streams'[p] # File
      BY <1>1, <1>9, <3>2, Fails DEF OpenAtm
    <3>. QED
      BY <3>1, <3>2
  <2>3. /\ TypeInv'
        /\ \A g \in File : file'[g] = file[g] \/ (g = "atm" /\ file'[g] = Empty)
        /\ \A q \in Process : \A g \in streams'[q] :
             g \in streams[q] \/ (q = p /\ g = "atm" /\ file'[g] # NoFile)
    BY <1>6, <2>1, <2>2 DEF File
  <2>4. streams'[p] = File => \A g \in File : file'[g] # NoFile
    BY <1>1, <2>3, InitAssumption DEF RootInv
  <2>5. RootMove(p)
    <3>1. exit'[p] # 0 /\ pc'[p] \in {"close bank", "done"} /\ pc'[p] # pc[p]
      BY <1>2, <2>1, <2>2
    <3>2. pc'[p] = "close bank" => \A g \in File : file'[g] # NoFile
      BY <2>2, <2>4
    <3>. QED
      BY <2>1, <2>2, <2>3, <3>1, <3>2 DEF RootMove
  <2>. QED
    BY <2>1, <2>3, <2>5
<1>10. CASE CloseBank(p) \/ CloseAtm(p)
  <2>1. \E f \in File : Close(p, f)
    BY <1>10 DEF CloseBank, CloseAtm, File
  <2>2. /\ Alone(p) /\ UnderWay(p)
        /\ \/ pc[p] = "close bank" /\ pc'[p] = "close atm" /\ exit'[p] = exit[p]
           \/ pc[p] = "close atm" /\ pc'[p] = "done" /\ exit'[p] = 0
    <3>1. CASE CloseBank(p)
      BY <1>1, <3>1, Goes DEF CloseBank, Alone, Call, UnderWay
    <3>2. CASE CloseAtm(p)
      BY <1>1, <3>2, Ends DEF CloseAtm, Alone, UnderWay
    <3>. QED
      BY <1>10, <3>1, <3>2
  <2>3. /\ TypeInv'
        /\ \A g \in File : file'[g] = file[g] \/ file'[g] = p
        /\ \A q \in Process : streams'[q] \subseteq streams[q]
    BY <1>7, <2>1, <2>2
  <2>4. RootMove(p)
    BY <1>2, <2>2, <2>3 DEF RootMove
  <2>. QED
    BY <2>3, <2>4
<1>. QED
  BY <1>3, <1>8, <1>9, <1>10

\* Nothing changes but for those who met, and nobody else's file is opened.
Respects ==
  /\ \A q \in Process, f \in File :
       f \in streams'[q] \ streams[q] => file[f] \in {NoFile} \cup OfCompany(q)
  /\ \A q \in Process, f \in File :
       exit[q] = 0 /\ file'[f] # file[f] =>
         version = "root" /\ \E r \in met[q] : pc'[r] # pc[r]

LEMMA RootStep ==
  ASSUME Inv, version = "root", NEW p \in Process, UNCHANGED <<version, loaded, met>>,
         \/ Access(p) \/ DrawKey(p) \/ Kill(p)
         \/ OpenBank(p) \/ OpenAtm(p) \/ CloseBank(p) \/ CloseAtm(p)
  PROVE  Inv' /\ Respects
<1>1. TypeInv /\ MetInv /\ RootInv
  BY DEF Inv
<1>2. /\ RootMove(p) /\ TypeInv'
      /\ \A q \in Process, f \in File : f \in streams'[q] \ streams[q] =>
           /\ q = p
           /\ \/ f = "bank" /\ pc[p] = "open bank"
              \/ f = "atm" /\ pc[p] = "open atm"
  BY RootMoves
<1>3. RootInv'
  BY <1>1, <1>2, RootMoveKeeps
<1>4. MetInv'
  <2>1. UnderWay(p) /\ Alone(p) /\ pc'[p] # "start" /\ met' = met
    <3>1. UnderWay(p) /\ Alone(p) /\ met' = met
      BY <1>2 DEF RootMove
    <3>2. pc'[p] # "start"
      <4>1. ASSUME NEW c \in Call, Goto(p, c) PROVE pc'[p] = c
        BY <1>1, <4>1, Goes
      <4>2. ASSUME NEW x \in {0, 63, 64, Running}, Finish(p, x) PROVE pc'[p] = "done"
        BY <1>1, <4>2, Ends
      <4>3. Kill(p) => Goto(p, "done")
        BY DEF Kill, Goto
      <4>. QED
        BY <4>1, <4>2, <4>3 DEF Access, DrawKey, OpenBank, OpenAtm, CloseBank, CloseAtm, Call
    <3>. QED
      BY <3>1, <3>2
  <2>. QED
    BY <1>1, <2>1, StillMet
<1>5. ASSUME NEW q \in Process, NEW f \in File, f \in streams'[q] \ streams[q]
      PROVE  file[f] \in {NoFile} \cup OfCompany(q)
  <2>. SUFFICES ASSUME file[f] # NoFile PROVE file[f] \in OfCompany(q)
    OBVIOUS
  <2>1. /\ q = p /\ Looking(p)
        /\ \/ f = "bank" /\ pc[p] = "open bank"
           \/ f = "atm" /\ pc[p] = "open atm"
    BY <1>2, <1>5 DEF Looking
  <2>2. met[p] # {}
    BY <1>1, <2>1 DEF RootInv
  <2>3. file[f] # p
    <3>1. ~ HasOpened(p)
      BY <1>1, <2>1 DEF RootInv
    <3>. QED
      BY <3>1 DEF HasOpened
  <2>4. file[f] \in met[p] \cup {Empty}
    BY <1>1, <2>1, <2>3, Contents
  <2>. QED
    BY <2>1, <2>2, <2>4 DEF OfCompany
<1>6. ASSUME NEW q \in Process, NEW f \in File, exit[q] = 0, file'[f] # file[f]
      PROVE  \E r \in met[q] : pc'[r] # pc[r]
  <2>1. HasOpened(q) /\ pc[q] = "done"
    BY <1>1, <1>6 DEF HasOpened, RootInv
  <2>2. (Looking(p) \/ HasOpened(p)) /\ p # q /\ pc'[p] # pc[p]
    BY <1>2, <1>6, <2>1 DEF RootMove, UnderWay, HasOpened
  <2>3. p \in met[q]
    BY <1>1, <2>1, <2>2 DEF RootInv
  <2>. QED
    BY <2>2, <2>3
<1>7. Inv'
  BY <1>2, <1>3, <1>4 DEF Inv
<1>. QED
  BY <1>5, <1>6, <1>7 DEF Respects

-----------------------------------------------------------------------------
(* The archived program.                                                   *)

\* The archived program creates a file or writes its key to the one it created.
LEMMA CreateStep ==
  ASSUME Inv, NEW p \in Process, CreateFiles(p), UNCHANGED <<version, loaded, met>>
  PROVE  /\ Inv'
         /\ \A q \in Process, f \in File : f \in streams'[q] \ streams[q] => file[f] = NoFile
         /\ file' = file \/ \A q \in Process : exit[q] # 0
<1>1. version = "archived" /\ ArchivedInv /\ TypeInv /\ KeptInv /\ MetInv
  BY DEF CreateFiles, Inv
<1>2. ASSUME NEW f \in File, NEW next \in Call, Create(p, f, next)
      PROVE  /\ pc' \in [Process -> Call] /\ exit' \in [Process -> {0, 63, 64, Running}]
             /\ \A q \in Process : q # p => pc'[q] = pc[q] /\ exit'[q] = exit[q]
             /\ \/ /\ file[f] = NoFile /\ Puts(f, Empty) /\ Holds(p, streams[p] \cup {f})
                   /\ pc'[p] = next /\ exit'[p] = exit[p]
                \/ /\ UNCHANGED <<file, streams>>
                   /\ pc'[p] = "done" /\ exit'[p] = 64
  <2>1. CASE UNCHANGED <<file, streams>> /\ Finish(p, 64)
    BY <1>1, <2>1, Ends
  <2>2. CASE /\ file[f] = NoFile /\ file' = [file EXCEPT ![f] = Empty]
             /\ streams' = [streams EXCEPT ![p] = @ \cup {f}] /\ Goto(p, next)
    <3>1. Puts(f, Empty) /\ Holds(p, streams[p] \cup {f})
      BY <1>1, <2>2, Opens
    <3>. QED
      BY <1>1, <2>2, <3>1, Goes
  <2>. QED
    BY <1>2, <2>1, <2>2 DEF Create
<1>3. ASSUME NEW f \in File, NEW next \in Call, Write(p, f, next)
      PROVE  /\ pc' \in [Process -> Call] /\ exit' \in [Process -> {0, 63, 64, Running}]
             /\ \A q \in Process : q # p => pc'[q] = pc[q] /\ exit'[q] = exit[q]
             /\ Holds(p, streams[p] \ {f})
             /\ \/ /\ Puts(f, p) /\ pc'[p] = next
                   /\ exit'[p] = IF next = "done" THEN 0 ELSE exit[p]
                \/ file' = file /\ pc'[p] = "done" /\ exit'[p] = 64
  <2>1. Holds(p, streams[p] \ {f})
    BY <1>1, <1>3, Closes DEF Write
  <2>2. CASE UNCHANGED file /\ Finish(p, 64)
    BY <1>1, <2>1, <2>2, Ends
  <2>3. CASE file' = [file EXCEPT ![f] = p] /\ next = "done" /\ Finish(p, 0)
    BY <1>1, <2>1, <2>3, Ends, FileEntry DEF Puts
  <2>4. CASE file' = [file EXCEPT ![f] = p] /\ next # "done" /\ Goto(p, next)
    BY <1>1, <2>1, <2>4, Goes, FileEntry DEF Puts
  <2>. QED
    BY <1>3, <2>2, <2>3, <2>4 DEF Write
<1>10. MetInv'
  <2>1. UnderWay(p)
    BY DEF CreateFiles, UnderWay
  <2>2. Alone(p) /\ pc'[p] \in {"write bank", "open atm", "write atm", "done"}
    BY <1>2, <1>3 DEF CreateFiles, Alone, File, Call
  <2>. QED
    BY <1>1, <2>1, <2>2, StillMet
\* A file that changes held no key, so nobody had succeeded and nobody had loaded it.
<1>4. ASSUME NEW f \in File, file[f] \notin Process, \A g \in File : g # f => file'[g] = file[g],
             file'["bank"] \in Process /\ file'["atm"] \in Process => file'["bank"] = file'["atm"],
             \A q \in Process : exit'[q] = 0 =>
               pc'[q] = "done" /\ \A g \in File : file'[g] = q
      PROVE  KeptInv' /\ \A q \in Process : exit[q] # 0
  <2>1. \A g \in File : \A k \in loaded[g] : k \in Process
    BY <1>1 DEF TypeInv
  <2>2. \A g \in File : \A k \in loaded'[g] : file'[g] = k
    BY <1>1, <1>4, <2>1 DEF KeptInv
  <2>3. \A q \in Process : exit[q] # 0
    BY <1>1, <1>4 DEF KeptInv
  <2>. QED
    BY <1>1, <1>4, <2>2, <2>3 DEF KeptInv
<1>5. ASSUME UNCHANGED file, pc'[p] = "done", exit'[p] = 64,
             \A q \in Process : q # p => pc'[q] = pc[q] /\ exit'[q] = exit[q]
      PROVE  KeptInv' /\ ArchivedInv'
  <2>1. KeptInv'
    BY <1>1, <1>5 DEF KeptInv
  <2>2. \A q \in Process :
          pc'[q] \in {"write bank", "open atm", "write atm"} => pc'[q] = pc[q]
    BY <1>5
  <2>3. \A q, r \in Process : pc'[q] = "write bank" /\ pc'[r] = "write bank" => q = r
    BY <1>1, <2>2 DEF ArchivedInv
  <2>4. ASSUME NEW q \in Process
        PROVE  /\ pc'[q] = "write bank" => file["bank"] = Empty
               /\ pc'[q] \in {"open atm", "write atm"} => file["bank"] = q
               /\ pc'[q] = "write atm" => file["atm"] = Empty
    BY <1>1, <2>2 DEF ArchivedInv
  <2>5. ArchivedInv'
    BY <1>1, <1>5, <2>3, <2>4 DEF ArchivedInv
  <2>. QED
    BY <2>1, <2>5
<1>6. CASE pc[p] = "open bank" /\ Create(p, "bank", "write bank")
  <2>2. /\ pc' \in [Process -> Call] /\ exit' \in [Process -> {0, 63, 64, Running}]
        /\ \A q \in Process : q # p => pc'[q] = pc[q] /\ exit'[q] = exit[q]
        /\ \/ /\ file["bank"] = NoFile /\ Puts("bank", Empty) /\ Holds(p, streams[p] \cup {"bank"})
              /\ pc'[p] = "write bank" /\ exit'[p] = exit[p]
           \/ /\ UNCHANGED <<file, streams>>
              /\ pc'[p] = "done" /\ exit'[p] = 64
    BY <1>2, <1>6 DEF File, Call
  <2>3. CASE UNCHANGED <<file, streams>> /\ pc'[p] = "done" /\ exit'[p] = 64
    BY <1>1, <1>5, <1>10, <2>2, <2>3 DEF Inv, TypeInv
  <2>4. CASE /\ file["bank"] = NoFile /\ Puts("bank", Empty)
             /\ Holds(p, streams[p] \cup {"bank"})
             /\ pc'[p] = "write bank" /\ exit'[p] = exit[p]
    <3>1. TypeInv'
      BY <1>1, <2>2, <2>4 DEF TypeInv, Puts, Holds
    <3>2. file'["bank"] = Empty /\ file'["atm"] = NoFile
      BY <1>1, <2>4, InitAssumption DEF ArchivedInv, Puts, File
    <3>3. \A q \in Process : exit[q] # 0 /\ exit'[q] # 0
      BY <1>1, <2>2, <2>4, InitAssumption DEF KeptInv, File
    <3>4. KeptInv'
      BY <1>4, <2>4, <3>2, <3>3, InitAssumption DEF Puts, File
    <3>5. \A q \in Process : pc[q] \notin {"write bank", "open atm", "write atm"}
      BY <1>1, <2>4, InitAssumption DEF ArchivedInv
    <3>6. ArchivedInv'
      BY <2>2, <2>4, <3>2, <3>5, InitAssumption DEF ArchivedInv
    <3>7. \A q \in Process, g \in File : g \in streams'[q] \ streams[q] => file[g] = NoFile
      BY <2>4 DEF Holds
    <3>. QED
      BY <1>1, <1>10, <3>1, <3>3, <3>4, <3>6, <3>7 DEF Inv
  <2>. QED
    BY <2>2, <2>3, <2>4
<1>7. CASE pc[p] = "write bank" /\ Write(p, "bank", "open atm")
  <2>1. file["bank"] = Empty /\ file["atm"] = NoFile
    BY <1>1, <1>7, InitAssumption DEF ArchivedInv
  <2>2. /\ pc' \in [Process -> Call] /\ exit' \in [Process -> {0, 63, 64, Running}]
        /\ \A q \in Process : q # p => pc'[q] = pc[q] /\ exit'[q] = exit[q]
        /\ Holds(p, streams[p] \ {"bank"})
        /\ \/ Puts("bank", p) /\ pc'[p] = "open atm" /\ exit'[p] = exit[p]
           \/ file' = file /\ pc'[p] = "done" /\ exit'[p] = 64
    BY <1>3, <1>7 DEF File, Call
  <2>3. \A q \in Process, g \in File : g \notin streams'[q] \ streams[q]
    BY <2>2 DEF Holds
  <2>4. CASE file' = file /\ pc'[p] = "done" /\ exit'[p] = 64
    BY <1>1, <1>5, <1>10, <2>2, <2>3, <2>4 DEF Inv, TypeInv, Holds
  <2>5. CASE Puts("bank", p) /\ pc'[p] = "open atm" /\ exit'[p] = exit[p]
    <3>1. TypeInv'
      BY <1>1, <2>2, <2>5 DEF TypeInv, Puts, Holds
    <3>2. file'["bank"] = p /\ file'["atm"] = NoFile
      BY <2>1, <2>5 DEF Puts, File
    <3>3. \A q \in Process : exit[q] # 0 /\ exit'[q] # 0
      BY <1>1, <2>1, <2>2, <2>5, InitAssumption DEF KeptInv, File
    <3>4. KeptInv'
      BY <1>4, <2>1, <2>5, <3>2, <3>3, InitAssumption DEF Puts, File
    <3>5. \A q \in Process : /\ q # p => pc[q] # "write bank"
                             /\ pc[q] \notin {"open atm", "write atm"}
      BY <1>1, <1>7, <2>1, InitAssumption DEF ArchivedInv
    <3>6. ArchivedInv'
      BY <2>2, <2>5, <3>2, <3>5, InitAssumption DEF ArchivedInv
    <3>. QED
      BY <1>1, <1>10, <2>3, <3>1, <3>3, <3>4, <3>6 DEF Inv
  <2>. QED
    BY <2>2, <2>4, <2>5
<1>8. CASE pc[p] = "open atm" /\ Create(p, "atm", "write atm")
  <2>1. file["bank"] = p
    BY <1>1, <1>8 DEF ArchivedInv
  <2>2. /\ pc' \in [Process -> Call] /\ exit' \in [Process -> {0, 63, 64, Running}]
        /\ \A q \in Process : q # p => pc'[q] = pc[q] /\ exit'[q] = exit[q]
        /\ \/ /\ file["atm"] = NoFile /\ Puts("atm", Empty) /\ Holds(p, streams[p] \cup {"atm"})
              /\ pc'[p] = "write atm" /\ exit'[p] = exit[p]
           \/ /\ UNCHANGED <<file, streams>>
              /\ pc'[p] = "done" /\ exit'[p] = 64
    BY <1>2, <1>8 DEF File, Call
  <2>3. CASE UNCHANGED <<file, streams>> /\ pc'[p] = "done" /\ exit'[p] = 64
    BY <1>1, <1>5, <1>10, <2>2, <2>3 DEF Inv, TypeInv
  <2>4. CASE /\ file["atm"] = NoFile /\ Puts("atm", Empty)
             /\ Holds(p, streams[p] \cup {"atm"})
             /\ pc'[p] = "write atm" /\ exit'[p] = exit[p]
    <3>1. TypeInv'
      BY <1>1, <2>2, <2>4 DEF TypeInv, Puts, Holds
    <3>2. file'["bank"] = p /\ file'["atm"] = Empty
      BY <2>1, <2>4 DEF Puts, File
    <3>3. \A q \in Process : exit[q] # 0 /\ exit'[q] # 0
      BY <1>1, <2>2, <2>4, InitAssumption DEF KeptInv, File
    <3>4. KeptInv'
      BY <1>4, <2>4, <3>2, <3>3, InitAssumption DEF Puts, File
    <3>5. \A q \in Process : /\ pc[q] # "write bank"
                             /\ q # p => pc[q] \notin {"open atm", "write atm"}
      BY <1>1, <2>1, InitAssumption DEF ArchivedInv
    <3>6. ArchivedInv'
      <4>1. \A q \in Process : pc'[q] \notin {"write bank", "open atm"}
                              /\ (pc'[q] = "write atm" => q = p)
        <5>1. ASSUME NEW q \in Process, q # p
              PROVE  pc'[q] \notin {"write bank", "open atm", "write atm"}
          BY <2>2, <3>5, <5>1
        <5>. QED
          BY <2>4, <5>1
      <4>. QED
        BY <3>2, <4>1, InitAssumption DEF ArchivedInv
    <3>7. \A q \in Process, g \in File : g \in streams'[q] \ streams[q] => file[g] = NoFile
      BY <2>4 DEF Holds
    <3>. QED
      BY <1>1, <1>10, <3>1, <3>3, <3>4, <3>6, <3>7 DEF Inv
  <2>. QED
    BY <2>2, <2>3, <2>4
<1>9. CASE pc[p] = "write atm" /\ Write(p, "atm", "done")
  <2>1. file["bank"] = p /\ file["atm"] = Empty
    BY <1>1, <1>9 DEF ArchivedInv
  <2>2. /\ pc' \in [Process -> Call] /\ exit' \in [Process -> {0, 63, 64, Running}]
        /\ \A q \in Process : q # p => pc'[q] = pc[q] /\ exit'[q] = exit[q]
        /\ Holds(p, streams[p] \ {"atm"}) /\ pc'[p] = "done"
        /\ \/ Puts("atm", p) /\ exit'[p] = 0
           \/ file' = file /\ exit'[p] = 64
    BY <1>3, <1>9 DEF File, Call
  <2>3. \A q \in Process, g \in File : g \notin streams'[q] \ streams[q]
    BY <2>2 DEF Holds
  <2>4. CASE file' = file /\ exit'[p] = 64
    BY <1>1, <1>5, <1>10, <2>2, <2>3, <2>4 DEF Inv, TypeInv, Holds
  <2>5. CASE Puts("atm", p) /\ exit'[p] = 0
    <3>1. TypeInv'
      BY <1>1, <2>2, <2>5 DEF TypeInv, Puts, Holds
    <3>2. file'["bank"] = p /\ file'["atm"] = p
      BY <2>1, <2>5 DEF Puts, File
    <3>3. \A q \in Process : exit[q] # 0 /\ (exit'[q] = 0 => q = p)
      BY <1>1, <2>1, <2>2, InitAssumption DEF KeptInv, File
    <3>4. KeptInv'
      BY <1>4, <2>1, <2>2, <2>5, <3>2, <3>3, InitAssumption DEF Puts, File
    <3>5. \A q \in Process : /\ pc[q] # "write bank"
                             /\ q # p => pc[q] \notin {"open atm", "write atm"}
      BY <1>1, <2>1, InitAssumption DEF ArchivedInv
    <3>6. ArchivedInv'
      <4>1. \A q \in Process : pc'[q] \notin {"write bank", "open atm", "write atm"}
        <5>1. ASSUME NEW q \in Process, q # p
              PROVE  pc'[q] \notin {"write bank", "open atm", "write atm"}
          BY <2>2, <3>5, <5>1
        <5>. QED
          BY <2>2, <5>1
      <4>. QED
        BY <3>2, <4>1, InitAssumption DEF ArchivedInv
    <3>. QED
      BY <1>1, <1>10, <2>3, <3>1, <3>3, <3>4, <3>6 DEF Inv
  <2>. QED
    BY <2>2, <2>4, <2>5
<1>. QED
  BY <1>6, <1>7, <1>8, <1>9 DEF CreateFiles

\* A bank or an ATM starts.
LEMMA LoadStep ==
  ASSUME Inv, NEW f \in File, Load(f), UNCHANGED <<version, met>>
  PROVE  Inv' /\ UNCHANGED <<file, streams>>
<1>1. UNCHANGED <<version, file, pc, streams, exit, met>> /\ file[f] \in Process
  BY DEF Load
<1>2. /\ loaded' \in [File -> SUBSET Process]
      /\ \A g \in File : \A k \in loaded'[g] : k \in loaded[g] \/ k = file[g]
  BY <1>1 DEF Load, Inv, TypeInv
<1>3. TypeInv' /\ MetInv'
  BY <1>1, <1>2 DEF Inv, TypeInv, MetInv, UnderWay
<1>4. ASSUME version = "root" PROVE RootInv'
  <2>1. \A q \in Process : (HasOpened(q)' => HasOpened(q)) /\ (Looking(q)' <=> Looking(q))
    BY <1>1, <1>2 DEF HasOpened, Looking
  <2>. QED
    BY <1>1, <1>4, <2>1 DEF Inv, RootInv
<1>5. ASSUME version = "archived" PROVE ArchivedInv' /\ KeptInv'
  BY <1>1, <1>2, <1>5 DEF Inv, ArchivedInv, KeptInv
<1>. QED
  BY <1>1, <1>3, <1>4, <1>5 DEF Inv

LEMMA ArchivedStep ==
  ASSUME Inv, version = "archived", NEW p \in Process, UNCHANGED <<version, loaded, met>>,
         Access(p) \/ DrawKey(p) \/ Kill(p)
  PROVE  Inv' /\ UNCHANGED <<file, streams>>
<1>1. TypeInv /\ MetInv /\ ArchivedInv /\ KeptInv
  BY DEF Inv
<1>2. /\ UNCHANGED <<file, streams>> /\ Alone(p) /\ UnderWay(p)
      /\ \/ pc'[p] = "done" /\ (exit'[p] = 0 => exit[p] = 0)
         \/ pc'[p] \in {"access atm", "rand", "open bank"} /\ exit'[p] = exit[p]
  BY <1>1, Calls
<1>3. TypeInv'
  BY <1>1, <1>2 DEF TypeInv, Alone
<1>4. MetInv'
  BY <1>1, <1>2, StillMet
<1>5. exit[p] # 0
  BY <1>1, <1>2 DEF KeptInv, UnderWay
<1>6. KeptInv'
  <2>1. exit'[p] # 0
    BY <1>2, <1>5
  <2>2. \A q \in Process : exit'[q] = 0 => pc'[q] = "done" /\ \A f \in File : file'[f] = q
    BY <1>1, <1>2, <2>1 DEF KeptInv, Alone
  <2>. QED
    BY <1>1, <1>2, <2>2 DEF KeptInv
<1>7. \A q \in Process :
        pc'[q] \in {"write bank", "open atm", "write atm"} => pc'[q] = pc[q]
  BY <1>2 DEF Alone
<1>8. ArchivedInv'
  BY <1>1, <1>2, <1>7 DEF ArchivedInv
<1>. QED
  BY <1>2, <1>3, <1>4, <1>6, <1>8 DEF Inv

LEMMA NextStep ==
  ASSUME Inv, [Next]_vars
  PROVE  Inv' /\ Respects
<1>1. ASSUME UNCHANGED <<file, streams>> PROVE Respects
  BY <1>1 DEF Respects
<1>2. ASSUME NEW p \in Process, Start(p), UNCHANGED <<version, loaded>>
      PROVE  Inv' /\ Respects
  BY <1>1, <1>2, StartStep
<1>3. ASSUME NEW p \in Process, UNCHANGED <<version, loaded, met>>,
             \/ Access(p) \/ DrawKey(p) \/ Kill(p)
             \/ OpenBank(p) \/ OpenAtm(p) \/ CloseBank(p) \/ CloseAtm(p)
      PROVE  Inv' /\ Respects
  <2>1. CASE version = "root"
    BY <1>3, <2>1, RootStep
  <2>2. CASE version = "archived"
    <3>1. Access(p) \/ DrawKey(p) \/ Kill(p)
      BY <1>3, <2>2 DEF OpenBank, OpenAtm, Open, CloseBank, CloseAtm, Close
    <3>. QED
      BY <1>1, <1>3, <2>2, <3>1, ArchivedStep
  <2>. QED
    BY <2>1, <2>2 DEF Inv, TypeInv
<1>4. ASSUME NEW p \in Process, CreateFiles(p), UNCHANGED <<version, loaded, met>>
      PROVE  Inv' /\ Respects
  <2>1. /\ Inv'
        /\ \A q \in Process, f \in File : f \in streams'[q] \ streams[q] => file[f] = NoFile
        /\ file' = file \/ \A q \in Process : exit[q] # 0
    BY <1>4, CreateStep
  <2>. QED
    BY <2>1 DEF Respects
<1>5. ASSUME NEW f \in File, Load(f), UNCHANGED <<version, met>>
      PROVE  Inv' /\ Respects
  BY <1>1, <1>5, LoadStep
<1>6. ASSUME UNCHANGED vars PROVE Inv' /\ Respects
  <2>1. UNCHANGED <<version, file, pc, streams, exit, loaded, met>>
    BY <1>6 DEF vars
  <2>2. (TypeInv /\ MetInv)'
    BY <2>1 DEF Inv, TypeInv, MetInv, UnderWay
  <2>3. \A q \in Process : (HasOpened(q)' <=> HasOpened(q)) /\ (Looking(q)' <=> Looking(q))
    BY <2>1 DEF HasOpened, Looking
  <2>4. (version = "root" => RootInv)'
    BY <2>1, <2>3 DEF Inv, RootInv
  <2>5. (version = "archived" => ArchivedInv /\ KeptInv)'
    BY <2>1 DEF Inv, ArchivedInv, KeptInv
  <2>. QED
    BY <1>1, <2>1, <2>2, <2>4, <2>5 DEF Inv
<1>. QED
  BY <1>2, <1>3, <1>4, <1>5, <1>6 DEF Next, Invocation

-----------------------------------------------------------------------------
(* Theorems.                                                               *)

LEMMA Invariance == Spec => []Inv
BY InitInv, NextStep, PTL DEF Spec

\* What open() creates exclusively was absent.  What access() found absent was there
\* at fopen() only if somebody opened it in between, whom the invocation therefore met.
THEOREM FilesAreNotOverwritten == Spec => NeverWrittenOver
<1>1. Inv /\ [Next]_vars =>
        [\A p \in Process, f \in File :
           f \in streams'[p] \ streams[p] => file[f] \in {NoFile} \cup OfCompany(p)]_vars
  BY NextStep DEF Respects
<1>. QED
  BY <1>1, Invariance, PTL DEF Spec, NeverWrittenOver

\* The files of an invocation that has reported success hold its key and keep it.  In
\* the root program those it met may have written theirs, or still do.
THEOREM SuccessLasts == Spec => SuccessIsKept
<1>. DEFINE Whose == \A p \in Process, f \in File :
              exit[p] = 0 =>
                file[f] \in {p} \cup IF version = "root" THEN met[p] \cup {Empty} ELSE {}
<1>1. Inv => Whose
  <2>. SUFFICES ASSUME Inv, NEW p \in Process, NEW f \in File, exit[p] = 0, file[f] # p
                PROVE  version = "root" /\ file[f] \in met[p] \cup {Empty}
    OBVIOUS
  <2>1. version = "root"
    BY DEF Inv, KeptInv, TypeInv
  <2>2. TypeInv /\ MetInv /\ RootInv /\ HasOpened(p)
    BY <2>1 DEF Inv, HasOpened
  <2>3. file[f] # NoFile
    BY <2>2 DEF RootInv
  <2>. QED
    BY <2>1, <2>2, <2>3, Contents
<1>2. Inv /\ [Next]_vars /\ Whose' =>
        [\A p \in Process, f \in File :
           exit'[p] = 0 =>
             /\ file'[f] \in {p} \cup IF version = "root" THEN met'[p] \cup {Empty} ELSE {}
             /\ exit[p] = 0 /\ file'[f] # file[f] =>
                  version = "root" /\ \E q \in met[p] : pc'[q] # pc[q]]_vars
  <2>. SUFFICES ASSUME Inv, [Next]_vars, Whose', NEW p \in Process, NEW f \in File, exit'[p] = 0
                PROVE  /\ file'[f] \in {p} \cup IF version = "root" THEN met'[p] \cup {Empty}
                                               ELSE {}
                       /\ exit[p] = 0 /\ file'[f] # file[f] =>
                            version = "root" /\ \E q \in met[p] : pc'[q] # pc[q]
    OBVIOUS
  <2>1. version' = version
    BY DEF Next, vars
  <2>2. file'[f] \in {p} \cup IF version = "root" THEN met'[p] \cup {Empty} ELSE {}
    BY <2>1
  <2>3. Respects
    BY NextStep
  <2>. QED
    BY <2>2, <2>3 DEF Respects
<1>. QED
  BY <1>1, <1>2, Invariance, PTL DEF Spec, SuccessIsKept

\* Whatever failed or was killed, two banks or ATMs that have started hold the same
\* key, or those of two invocations of the root program that met.
THEOREM KeysAlwaysAgree == Spec => []KeysAgree
<1>1. Inv => KeysAgree
  <2>. SUFFICES ASSUME Inv, NEW k \in loaded["bank"] \cup loaded["atm"],
                       NEW l \in loaded["bank"] \cup loaded["atm"]
                PROVE  k = l \/ (version = "root" /\ l \in met[k])
    BY DEF KeysAgree
  <2>1. loaded["bank"] \subseteq Process /\ loaded["atm"] \subseteq Process
    BY DEF Inv, TypeInv, File
  <2>2. CASE version = "archived"
    <3>1. /\ \A m \in loaded["bank"] : file["bank"] = m
          /\ \A m \in loaded["atm"] : file["atm"] = m
      BY <2>2 DEF Inv, KeptInv, File
    <3>2. file["bank"] \in Process /\ file["atm"] \in Process => file["bank"] = file["atm"]
      BY <2>2 DEF Inv, KeptInv
    <3>. QED
      BY <2>1, <3>1, <3>2
  <2>3. CASE version = "root"
    <3>1. k \in Process /\ l \in Process /\ HasOpened(k) /\ HasOpened(l)
      BY <2>1 DEF HasOpened, File
    <3>. QED
      BY <2>3, <3>1 DEF Inv, RootInv
  <2>. QED
    BY <2>2, <2>3 DEF Inv, TypeInv
<1>. QED
  BY <1>1, Invariance, PTL

=============================================================================
