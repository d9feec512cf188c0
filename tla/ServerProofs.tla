---------------------------- MODULE ServerProofs ----------------------------
(***************************************************************************)
(* Theorems about ServerProcess, for any number of servers and certgens    *)
(* and any bound on the bootstraps.                                        *)
(***************************************************************************)
EXTENDS ServerProcess, SequenceTheorems, TLAPS

\* What can be read and not be refused at once.
Readable == Generation \cup {Empty}

\* Where each program may be, and what it holds there.
ControlOK ==
    /\ pc \in [Processes -> {"idle", "remove", "check", "write", "copy", "load"}
                            \cup Serving]
    /\ \A p \in Processes :
         /\ pc[p] = "remove" => p \in Certgens /\ at[p] \in 0..3
         /\ pc[p] = "copy" => p \in Certgens /\ (at[p] # 0 => gen[p] \in Readable)
         /\ p \in Certgens => pc[p] \notin {"load"} \cup Serving
    /\ loaded \in [Servers -> Seq(Readable)]
    /\ \A p \in Servers :
         /\ pc[p] \in Serving => Len(loaded[p]) = 7
         /\ pc[p] = "load" => Len(loaded[p]) < 7
         /\ pc[p] \notin {"load"} \cup Serving => loaded[p] = <<>>

ListenersOK ==
    /\ listener \in [Servers -> [Ports -> {"starting", "open", "failed", "closed"}]]
    /\ busy \in [Servers -> SUBSET Ports]
    /\ signalled \subseteq Servers /\ expired \subseteq Servers
    /\ cut \in BOOLEAN

TInv == FilesTypeOK /\ ControlOK /\ ListenersOK

\* What a server has read.
LEMMA LoadedType ==
  ASSUME ControlOK, NEW p \in Servers
  PROVE  /\ loaded[p] \in Seq(Readable)
         /\ DOMAIN loaded[p] = 1 .. Len(loaded[p])
         /\ Len(loaded[p]) \in Nat /\ Len(loaded[p]) <= 7
         /\ pc[p] = "load" => Len(loaded[p]) < 7
         /\ pc[p] \in Serving <=> Len(loaded[p]) = 7
<1>1. loaded[p] \in Seq(Readable)
  BY DEF ControlOK
<1>2. Len(loaded[p]) \in Nat /\ DOMAIN loaded[p] = 1 .. Len(loaded[p])
  BY <1>1
<1>3. CASE pc[p] \in Serving
  <2>1. Len(loaded[p]) = 7
    BY <1>3 DEF ControlOK
  <2> QED BY <1>1, <1>2, <1>3, <2>1 DEF Serving
<1>4. CASE pc[p] = "load"
  <2>1. Len(loaded[p]) < 7
    BY <1>4 DEF ControlOK
  <2>2. pc[p] \notin Serving
    BY <1>4 DEF Serving
  <2>3. \A n \in Nat : n < 7 => n <= 7 /\ n # 7
    OBVIOUS
  <2> QED BY <1>1, <1>2, <2>1, <2>2, <2>3
<1>5. CASE pc[p] \notin {"load"} \cup Serving
  <2>1. loaded[p] = <<>>
    BY <1>5 DEF ControlOK
  <2>2. Len(loaded[p]) = 0
    BY <2>1
  <2> QED BY <1>1, <1>2, <1>5, <2>2
<1> QED BY <1>3, <1>4, <1>5

\* Only the third read is not parsed.
ParsedButThird ==
    \A p \in Servers : \A i \in DOMAIN loaded[p] : loaded[p][i] = Empty => i = 3

\* The inductive invariants say more than TypeOK.
LEMMA TInvIsTyped == TInv /\ ParsedButThird => TypeOK
<1> SUFFICES ASSUME TInv, ParsedButThird PROVE TypeOK
  OBVIOUS
<1>1. ControlOK
  BY DEF TInv
<1>2. ASSUME NEW p \in Servers
      PROVE  /\ DOMAIN loaded[p] \subseteq 1..7
             /\ \A i \in DOMAIN loaded[p] :
                  loaded[p][i] \in Generation \/ (i = 3 /\ loaded[p][i] = Empty)
             /\ pc[p] \in Serving <=> Len(loaded[p]) = 7
  <2>1. DOMAIN loaded[p] \subseteq 1..7
    BY <1>1, LoadedType
  <2>2. \A i \in DOMAIN loaded[p] : loaded[p][i] \in Readable
    BY <1>1, LoadedType, ElementOfSeq
  <2> QED BY <1>1, <2>1, <2>2, LoadedType DEF ParsedButThird, Readable
<1> QED BY <1>2 DEF TypeOK, TInv, ControlOK, ListenersOK

\* The program starts where TInv says it may be.
LEMMA TInvInit == Init => TInv
<1> SUFFICES ASSUME Init PROVE TInv
  OBVIOUS
<1> USE FilesAssumption DEF Init
<1>1. FilesTypeOK
  <2>1. [f \in Files |-> Nil] \in [Files -> Content] /\ Nil \in Content
    BY DEF Content
  <2>2. 0 \in 0..7 /\ 0 \in 0..MaxGenerations
    OBVIOUS
  <2> QED BY <2>1, <2>2 DEF FilesInit, FilesTypeOK, Processes
<1>2. ControlOK
  <2>1. [p \in Servers |-> <<>>] \in [Servers -> Seq(Readable)]
    OBVIOUS
  <2> QED BY <2>1 DEF FilesInit, ControlOK, Serving, Processes
<1>3. ListenersOK
  BY DEF ListenersOK, Starting, Ports
<1> QED BY <1>1, <1>2, <1>3 DEF TInv

\* A move of the program counter to a step with no obligations keeps the
\* bookkeeping of CertificateFiles.
LEMMA FileSteps ==
  ASSUME TInv, NEW p \in Processes, BootstrapStep(p), UNCHANGED serverVars
  PROVE  TInv'
<1> USE FilesAssumption DEF TInv, FilesTypeOK, ControlOK, Goto, Exit, Serving, serverVars,
                            Processes
<1>0. ListenersOK'
  BY DEF ListenersOK
<1>1. CASE StartServer(p)
  BY <1>0, <1>1 DEF StartServer
<1>2. CASE StartCertgen(p)
  BY <1>0, <1>2 DEF StartCertgen
<1>3. CASE Remove(p)
  <2>1. /\ files' = [files EXCEPT ![RemoveOrder[at[p] + 1]] = Nil]
        /\ overlapped' \in BOOLEAN
    BY <1>3 DEF Remove, SetFile, Overlap
  <2>2. files' \in [Files -> Content]
    BY <2>1 DEF Content
  <2>3. at[p] \in 0..3
    BY <1>3 DEF Remove
  <2>4. CASE at[p] = 3
    <3>1. Goto(p, "check", 0, Nil) /\ UNCHANGED <<debugCA, generations, finished>>
      BY <1>3, <2>4 DEF Remove
    <3> QED BY <1>0, <1>3, <2>1, <2>2, <3>1 DEF Remove
  <2>5. CASE at[p] # 3
    <3>1. at[p] + 1 \in 0..3
      BY <2>3, <2>5
    <3>2. /\ Goto(p, "remove", at[p] + 1, Nil) /\ pc[p] = "remove"
          /\ UNCHANGED <<debugCA, generations, finished>>
      BY <1>3, <2>5 DEF Remove
    <3> QED BY <1>0, <2>1, <2>2, <3>1, <3>2
  <2> QED BY <2>4, <2>5
<1>4. CASE Check(p)
  <2>1. CASE AfterBootstrap(p) /\ UNCHANGED generations
    BY <1>0, <1>4, <2>1 DEF Check, AfterBootstrap
  <2>2. CASE Exit(p) /\ UNCHANGED generations
    BY <1>0, <1>4, <2>2 DEF Check
  <2>3. CASE GenerateCA(p, 0)
    <3>1. generations' \in Generation /\ generations' \in 0..MaxGenerations
      BY <2>3 DEF GenerateCA, Generation
    <3> QED BY <1>0, <1>4, <2>3, <3>1 DEF Check, GenerateCA
  <2> QED BY <1>4, <2>1, <2>2, <2>3 DEF Check
<1>5. CASE Write(p)
  <2>1. /\ files' = [files EXCEPT ![WriteOrder[at[p] \div 2 + 1]] =
                       IF at[p] % 2 = 0 THEN Empty ELSE gen[p]]
        /\ overlapped' \in BOOLEAN
    BY <1>5 DEF Write, SetFile, Overlap
  <2>2. gen[p] \in Generation
    BY <1>5 DEF Write
  <2>3. files' \in [Files -> Content]
    BY <2>1, <2>2 DEF Content
  <2>4. CASE at[p] = 7
    <3>1. /\ Goto(p, IF p \in Servers THEN "load" ELSE "copy", 0, Nil)
          /\ UNCHANGED <<debugCA, generations, finished>>
      BY <1>5, <2>4 DEF Write, AfterBootstrap
    <3>2. p \in Servers => Len(loaded[p]) < 7
      <4>1. p \in Servers => loaded[p] = <<>>
        BY <1>5 DEF Write
      <4> QED BY <4>1
    <3> QED BY <1>0, <2>1, <2>3, <3>1, <3>2
  <2>5. CASE at[p] # 7
    <3>1. /\ Goto(p, "write", at[p] + 1, gen[p]) /\ pc[p] = "write"
          /\ UNCHANGED <<debugCA, generations, finished>>
      BY <1>5, <2>5 DEF Write
    <3>2. at[p] + 1 \in 0..7
      BY <2>5
    <3> QED BY <1>0, <2>1, <2>2, <2>3, <3>1, <3>2
  <2> QED BY <2>4, <2>5
<1>6. CASE Copy(p)
  <2>1. debugCA' \in Content /\ finished' \subseteq Generation
    BY <1>6 DEF Copy, Content
  <2>2. pc[p] = "copy" /\ UNCHANGED <<files, generations, overlapped>>
    BY <1>6 DEF Copy
  <2>3. CASE Exit(p)
    BY <1>0, <2>1, <2>2, <2>3
  <2>4. CASE files["ca.crt"] # Nil /\ Goto(p, "copy", 1, files["ca.crt"])
    <3>1. files["ca.crt"] \in Readable
      BY <2>4 DEF Readable, Content, Files
    <3> QED BY <2>1, <2>2, <2>4, <3>1, <1>0 DEF Readable
  <2>5. CASE at[p] = 1 /\ Goto(p, "copy", 2, gen[p])
    BY <1>0, <2>1, <2>2, <2>5
  <2> QED BY <1>6, <2>3, <2>4, <2>5 DEF Copy
<1> QED BY <1>1, <1>2, <1>3, <1>4, <1>5, <1>6 DEF BootstrapStep

\* The end of a server leaves nothing behind in memory.
LEMMA EndsTypes ==
  ASSUME TInv, NEW p \in Servers, Ends(p), cut' \in BOOLEAN,
         UNCHANGED <<files, debugCA, generations, finished, overlapped>>
  PROVE  TInv'
BY DEF TInv, FilesTypeOK, ControlOK, ListenersOK, Ends, Exit, Goto, Starting,
       Ports, Serving, Processes

\* What a server reads next is one of the files.
LEMMA ReadsFiles ==
  ASSUME TInv, NEW p \in Servers, pc[p] = "load"
  PROVE  Len(loaded[p]) + 1 \in 1..7 /\ ReadOrder[Len(loaded[p]) + 1] \in Files
<1>1. Len(loaded[p]) + 1 \in 1..7
  <2>1. Len(loaded[p]) \in Nat /\ Len(loaded[p]) < 7
    BY LoadedType DEF TInv
  <2>2. \A m \in Nat : m < 7 => m + 1 \in 1..7
    OBVIOUS
  <2> QED BY <2>1, <2>2
<1>2. \A n \in 1..7 : ReadOrder[n] \in Files
  <2>1. \A n \in 1..7 : n = 1 \/ n = 2 \/ n = 3 \/ n = 4 \/ n = 5 \/ n = 6 \/ n = 7
    OBVIOUS
  <2> QED BY <2>1 DEF ReadOrder, Files
<1> QED BY <1>1, <1>2

\* A server reads one file more.
LEMMA LoadTypes == ASSUME TInv, NEW p \in Servers, Load(p) PROVE TInv'
<1> USE DEF TInv, FilesTypeOK, ControlOK, ListenersOK
<1> DEFINE n == Len(loaded[p]) + 1
           content == files[ReadOrder[n]]
<1>1. CASE Ends(p) /\ UNCHANGED <<files, debugCA, generations, finished, overlapped, cut>>
  BY <1>1, EndsTypes
<1>2. CASE /\ loaded' = [loaded EXCEPT ![p] = Append(@, content)]
           /\ content \in Readable
           /\ Goto(p, IF n = 7 THEN "serve" ELSE "load", 0, Nil)
           /\ UNCHANGED <<listener, busy, signalled, expired>>
  <2>0. pc[p] = "load" /\ UNCHANGED <<files, debugCA, generations, finished, overlapped, cut>>
    BY DEF Load
  <2>1. loaded[p] \in Seq(Readable) /\ Len(loaded[p]) \in Nat /\ Len(loaded[p]) < 7
    BY <2>0, LoadedType
  <2>2. /\ Append(loaded[p], content) \in Seq(Readable)
        /\ Len(Append(loaded[p], content)) = n
    BY <1>2, <2>1
  <2>3. loaded' \in [Servers -> Seq(Readable)] /\ Len(loaded'[p]) = n
    BY <1>2, <2>2
  <2>4. n \in Nat /\ (n # 7 => n < 7)
    <3> HIDE DEF TInv, FilesTypeOK, ControlOK, ListenersOK
    <3> QED BY <2>1
  <2>5. /\ pc' \in [Processes -> {"idle", "remove", "check", "write", "copy", "load"} \cup Serving]
        /\ pc'[p] = IF n = 7 THEN "serve" ELSE "load"
        /\ \A q \in Processes \ {p} : pc'[q] = pc[q] /\ at'[q] = at[q] /\ gen'[q] = gen[q]
    BY <1>2 DEF Goto, Serving, Processes
  <2>6. ControlOK'
    <3> HIDE DEF n
    <3> QED BY <1>2, <2>0, <2>3, <2>4, <2>5, FilesAssumption DEF Serving, Processes
  <2>7. FilesTypeOK'
    <3> HIDE DEF n
    <3> QED BY <1>2, <2>0, <2>5 DEF Goto, Processes
  <2> QED BY <1>2, <2>0, <2>6, <2>7
<1>3. content # Nil => content \in Readable
  <2>1. ReadOrder[n] \in Files
    BY ReadsFiles DEF Load
  <2> QED BY <2>1 DEF Content, Readable
<1> QED BY <1>1, <1>2, <1>3 DEF Load

\* The main goroutine's other steps.
LEMMA MainTypes ==
  ASSUME TInv, NEW p \in Servers, MainStep(p) \/ Signal(p) \/ DeadlinePasses(p)
  PROVE  TInv'
<1> USE FilesAssumption DEF TInv, FilesTypeOK, ControlOK, ListenersOK, Processes
<1>1. ASSUME NEW port \in Ports, StartShutdown(p, port), pc[p] \in Serving
      PROVE  TInv'
  <2>1. listener' \in [Servers -> [Ports -> {"starting", "open", "failed", "closed"}]]
    BY <1>1 DEF StartShutdown
  <2>2. port \in Serving
    BY DEF Ports, Serving
  <2> QED BY <1>1, <2>1, <2>2 DEF StartShutdown, Goto, Serving
<1>2. CASE Load(p)
  BY <1>2, LoadTypes
<1>3. CASE Select(p) \/ EnrollShutdownReturns(p)
  <2>1. \E port \in Ports : StartShutdown(p, port) /\ pc[p] \in Serving
    BY <1>3 DEF Select, EnrollShutdownReturns, Ports, Serving
  <2> QED BY <1>1, <2>1
<1>4. CASE MtlsShutdownReturns(p)
  BY <1>4, EndsTypes DEF MtlsShutdownReturns
<1>5. CASE Signal(p)
  BY <1>5 DEF Signal, filesVars
<1>6. CASE DeadlinePasses(p)
  BY <1>6 DEF DeadlinePasses, filesVars
<1> QED BY <1>2, <1>3, <1>4, <1>5, <1>6 DEF MainStep

\* The listeners' goroutines.
LEMMA ListenerTypes ==
  ASSUME TInv, NEW p \in Servers, NEW port \in Ports, ListenerStep(p, port)
  PROVE  TInv'
<1> USE DEF TInv, FilesTypeOK, ControlOK, ListenersOK, filesVars
<1>1. CASE Listen(p, port) \/ ListenerFails(p, port)
  <2>1. \E state \in {"open", "failed", "closed"} : SetListener(p, port, state)
    BY <1>1 DEF Listen, ListenerFails
  <2> QED BY <2>1 DEF SetListener
<1>2. CASE ReceiveRequest(p, port)
  BY <1>2 DEF ReceiveRequest
<1>3. CASE AnswerRequest(p, port)
  BY <1>3 DEF AnswerRequest
<1> QED BY <1>1, <1>2, <1>3 DEF ListenerStep

\* A killed program.
LEMMA KillTypes == ASSUME TInv, NEW p \in Processes, Kill(p) PROVE TInv'
<1>1. CASE p \in Servers
  <2>1. cut' \in BOOLEAN
    BY DEF Kill, TInv, ListenersOK
  <2> QED BY <1>1, <2>1, EndsTypes DEF Kill
<1>2. CASE p \notin Servers
  <2>1. /\ Exit(p)
        /\ UNCHANGED <<loaded, listener, busy, signalled, expired>>
        /\ UNCHANGED <<files, debugCA, generations, finished, overlapped, cut>>
    BY <1>2 DEF Kill
  <2>2. FilesTypeOK' /\ ListenersOK'
    BY <2>1 DEF Exit, Goto, TInv, FilesTypeOK, ListenersOK
  <2>3. ControlOK'
    BY <1>2, <2>1 DEF Exit, Goto, TInv, ControlOK, FilesTypeOK, Serving, Processes
  <2> QED BY <2>2, <2>3 DEF TInv
<1> QED BY <1>1, <1>2

\* Every step of either program, of the operator or of a request keeps TInv.
LEMMA TInvStep == ASSUME TInv, [SystemNext]_vars PROVE TInv'
<1>1. ASSUME NEW f \in Files, OperatorDeletes(f), UNCHANGED serverVars
      PROVE  TInv'
  <2>1. files' \in [Files -> Content]
    BY <1>1 DEF OperatorDeletes, TInv, FilesTypeOK, Content
  <2> QED BY <1>1, <2>1
          DEF OperatorDeletes, serverVars, TInv, FilesTypeOK, ControlOK, ListenersOK
<1>2. CASE UNCHANGED vars
  BY <1>2 DEF vars, filesVars, serverVars, TInv, FilesTypeOK, ControlOK, ListenersOK
<1> QED BY <1>1, <1>2, FileSteps, MainTypes, ListenerTypes, KillTypes DEF SystemNext

\* A read that is not parsed is the third.
LEMMA ParsedStep == ASSUME TInv, ParsedButThird, [SystemNext]_vars PROVE ParsedButThird'
<1>1. ASSUME \A p \in Servers : loaded'[p] \in {loaded[p], <<>>} PROVE ParsedButThird'
  <2>1. DOMAIN <<>> = {}
    OBVIOUS
  <2> QED BY <1>1, <2>1 DEF ParsedButThird
<1>2. DOMAIN loaded = Servers
  BY DEF TInv, ControlOK
<1>3. ASSUME NEW p \in Servers, Load(p) PROVE ParsedButThird'
  <2> DEFINE n == Len(loaded[p]) + 1
             content == files[ReadOrder[n]]
  <2>1. CASE Ends(p)
    BY <1>1, <1>2, <2>1 DEF Ends
  <2>2. CASE /\ loaded' = [loaded EXCEPT ![p] = Append(@, content)]
             /\ n # 3 => content \in Generation
    <3>1. loaded[p] \in Seq(Readable) /\ Len(loaded[p]) \in Nat
          /\ DOMAIN loaded[p] = 1 .. Len(loaded[p])
      BY LoadedType DEF TInv
    <3>2. /\ loaded'[p] = Append(loaded[p], content)
          /\ \A q \in Servers \ {p} : loaded'[q] = loaded[q]
      BY <1>2, <2>2
    <3>3. content = Empty => n = 3
      BY <2>2, FilesAssumption DEF Generation
    <3>4. \A i \in DOMAIN loaded'[p] :
            \/ i \in DOMAIN loaded[p] /\ loaded'[p][i] = loaded[p][i]
            \/ i = n /\ loaded'[p][i] = content
      <4> HIDE DEF content
      <4> QED BY <3>1, <3>2, AppendProperties
    <3> HIDE DEF n, content
    <3> QED BY <3>2, <3>3, <3>4 DEF ParsedButThird
  <2> QED BY <1>3, <2>1, <2>2 DEF Load
<1>4. ASSUME NEW p \in Processes, BootstrapStep(p), UNCHANGED serverVars
      PROVE  ParsedButThird'
  BY <1>1, <1>4 DEF serverVars
<1>5. ASSUME NEW f \in Files, OperatorDeletes(f), UNCHANGED serverVars
      PROVE  ParsedButThird'
  BY <1>1, <1>5 DEF serverVars
<1>6. ASSUME NEW p \in Servers, MainStep(p) \/ Signal(p) \/ DeadlinePasses(p)
      PROVE  ParsedButThird'
  BY <1>1, <1>2, <1>3, <1>6
     DEF MainStep, Select, EnrollShutdownReturns, MtlsShutdownReturns, StartShutdown, Ends,
         Signal, DeadlinePasses
<1>7. ASSUME NEW p \in Servers, NEW port \in Ports, ListenerStep(p, port)
      PROVE  ParsedButThird'
  BY <1>1, <1>7 DEF ListenerStep, Listen, ListenerFails, SetListener, ReceiveRequest,
                    AnswerRequest
<1>8. ASSUME NEW p \in Processes, Kill(p) PROVE ParsedButThird'
  BY <1>1, <1>2, <1>8 DEF Kill, Ends
<1>9. CASE UNCHANGED vars
  BY <1>1, <1>9 DEF vars, serverVars
<1> QED BY <1>4, <1>5, <1>6, <1>7, <1>8, <1>9 DEF SystemNext

\* Hence TInv always holds.
LEMMA TypedAlways == Spec => []TInv
BY TInvInit, TInvStep, PTL DEF Spec

\* main.go:41-49, 78, 112.  The types hold for ever: among them that a server
\* has read, in order, files of some bootstrap each, but for the CA's PEM,
\* which may be empty.
THEOREM TypeCorrect == Spec => []TypeOK
<1>1. Init => ParsedButThird
  <2>1. DOMAIN <<>> = {}
    OBVIOUS
  <2> QED BY <2>1 DEF Init, ParsedButThird
<1> QED BY <1>1, TypedAlways, ParsedStep, TInvIsTyped, PTL DEF Spec

-----------------------------------------------------------------------------
(* Shutdown                                                                *)

\* A port whose Shutdown has begun accepts nothing any more, and once the
\* first Shutdown has returned in time its port is idle.
Draining ==
    \A p \in Servers :
        /\ pc[p] \in {"enroll", "mtls"} => listener[p]["enroll"] # "open"
        /\ pc[p] = "mtls" => /\ listener[p]["mtls"] # "open"
                             /\ p \notin expired => "enroll" \notin busy[p]

SInv == TInv /\ Draining /\ NoRequestCutEarly

\* Each step respects the order: listener closed, requests awaited.
LEMMA DrainingStep == ASSUME SInv, [SystemNext]_vars PROVE SInv'
<1>0. TInv /\ TInv'
  BY TInvStep DEF SInv
<1> USE <1>0 DEF SInv, Draining, NoRequestCutEarly
<1>a. /\ pc \in [Processes -> {"idle", "remove", "check", "write", "copy", "load"} \cup Serving]
      /\ DOMAIN loaded = Servers
      /\ ListenersOK
  BY DEF TInv, ControlOK
<1> USE <1>a DEF ListenersOK, Ports
<1>1. ASSUME NEW p \in Processes, BootstrapStep(p), UNCHANGED serverVars PROVE SInv'
  <2>1. \A q \in Servers : pc'[q] \in {"enroll", "mtls"} => pc'[q] = pc[q]
    BY <1>1 DEF BootstrapStep, StartServer, StartCertgen, Remove, Check, Write, Copy,
                GenerateCA, AfterBootstrap, Goto, Exit, Processes
  <2> QED BY <1>1, <2>1 DEF serverVars
<1>2. ASSUME NEW f \in Files, OperatorDeletes(f), UNCHANGED serverVars PROVE SInv'
  BY <1>2 DEF OperatorDeletes, serverVars
<1>3. ASSUME NEW p \in Servers, Load(p) PROVE SInv'
  <2>1. pc'[p] \notin {"enroll", "mtls"} /\ UNCHANGED cut
    BY <1>3 DEF Load, Ends, Exit, Goto, Processes
  <2>2. \A q \in Servers \ {p} :
          /\ pc'[q] = pc[q] /\ listener'[q] = listener[q] /\ busy'[q] = busy[q]
          /\ q \in expired' <=> q \in expired
    BY <1>3 DEF Load, Ends, Exit, Goto, Processes
  <2> QED BY <2>1, <2>2
<1>4. ASSUME NEW p \in Servers, Select(p) PROVE SInv'
  BY <1>4 DEF Select, StartShutdown, Goto, Processes
<1>5. ASSUME NEW p \in Servers, EnrollShutdownReturns(p) PROVE SInv'
  BY <1>5 DEF EnrollShutdownReturns, StartShutdown, Drained, Goto, Processes
<1>6. ASSUME NEW p \in Servers, MtlsShutdownReturns(p) PROVE SInv'
  <2>1. busy[p] = {} \/ p \in expired
    BY <1>6 DEF MtlsShutdownReturns, Drained
  <2>2. cut' = FALSE
    BY <1>6, <2>1 DEF MtlsShutdownReturns
  <2> QED BY <1>6, <2>2 DEF MtlsShutdownReturns, Ends, Exit, Goto, Processes
<1>7. ASSUME NEW p \in Servers, Signal(p) \/ DeadlinePasses(p) PROVE SInv'
  BY <1>7 DEF Signal, DeadlinePasses, filesVars
<1>8. ASSUME NEW p \in Servers, NEW port \in Ports, ListenerStep(p, port) PROVE SInv'
  <2>1. CASE Listen(p, port) \/ ListenerFails(p, port)
    BY <2>1 DEF Listen, ListenerFails, SetListener, Shut, filesVars
  <2>2. CASE ReceiveRequest(p, port)
    BY <2>2 DEF ReceiveRequest, filesVars
  <2>3. CASE AnswerRequest(p, port)
    BY <2>3 DEF AnswerRequest, filesVars
  <2> QED BY <1>8, <2>1, <2>2, <2>3 DEF ListenerStep
<1>9. ASSUME NEW p \in Processes, Kill(p) PROVE SInv'
  <2>1. CASE p \in Servers
    BY <1>9, <2>1 DEF Kill, Ends, Exit, Goto, Processes
  <2>2. CASE p \notin Servers
    BY <1>9, <2>2 DEF Kill, Exit, Goto, Processes
  <2> QED BY <2>1, <2>2
<1>10. CASE UNCHANGED vars
  BY <1>10 DEF vars, filesVars, serverVars
<1> QED BY <1>1, <1>2, <1>3, <1>4, <1>5, <1>6, <1>7, <1>8, <1>9, <1>10
        DEF SystemNext, MainStep

\* main.go:169-177.  However late a listener starts and whatever is killed,
\* a graceful shutdown cuts no request before the deadline.
THEOREM ShutdownGraceful == Spec => []NoRequestCutEarly
<1>1. Init => SInv
  BY TInvInit DEF Init, FilesInit, SInv, Draining, NoRequestCutEarly, Processes
<1>2. SInv => NoRequestCutEarly
  BY DEF SInv
<1> QED BY <1>1, <1>2, DrainingStep, PTL DEF Spec

-----------------------------------------------------------------------------
(* The certificate files                                                   *)

\* Without overlap the files that are complete are of one generation, which
\* is that of the process writing or reading them.  The CA's certificate stays
\* what it was at a server's first read, so that the third, which is not
\* parsed, finds it again.
OneSet ==
    /\ \A f, g \in Files :
         files[f] \in Generation /\ files[g] \in Generation => files[f] = files[g]
    /\ \A p \in Processes : pc[p] = "write" =>
         \A f \in Files : files[f] \in Generation => files[f] = gen[p]
    /\ \A p \in Servers : pc[p] = "load" =>
         \A i \in DOMAIN loaded[p], f \in Files :
            files[f] \in Generation => files[f] = loaded[p][i]
    /\ \A p \in Servers : \A i, j \in DOMAIN loaded[p] : loaded[p][i] = loaded[p][j]
    /\ \A p \in Servers : loaded[p] # <<>> =>
         /\ loaded[p][1] \in Generation
         /\ pc[p] = "load" => files["ca.crt"] = loaded[p][1]

\* Without overlap a bootstrap finds the files it has yet to write absent, and
\* the one it is writing empty.
NothingInTheWay ==
    \A p \in Processes : pc[p] = "write" =>
        /\ at[p] % 2 = 1 => files[WriteOrder[at[p] \div 2 + 1]] = Empty
        /\ \A i \in (at[p] + 1) \div 2 + 1 .. 4 : files[WriteOrder[i]] = Nil

GInv == TInv /\ (~overlapped => OneSet /\ NothingInTheWay)

\* An overlap is remembered.
LEMMA OverlapIsRemembered == ASSUME TInv, [SystemNext]_vars PROVE overlapped => overlapped'
BY DEF SystemNext, BootstrapStep, StartServer, StartCertgen, Remove, Check, Write, Copy,
       SetFile, Overlap, OperatorDeletes, MainStep, Load, Select, EnrollShutdownReturns,
       MtlsShutdownReturns, StartShutdown, Signal, DeadlinePasses, ListenerStep, Listen,
       ListenerFails, SetListener, ReceiveRequest, AnswerRequest, Kill, vars, filesVars

\* The arithmetic of the eight half-writes.
LEMMA HalfWrites ==
  ASSUME NEW n \in 0..7
  PROVE  /\ n % 2 \in {0, 1} /\ n \div 2 + 1 \in 1..4
         /\ n % 2 = 0 => (n + 1) \div 2 = n \div 2 /\ (n + 1) % 2 = 1
         /\ n % 2 = 1 => (n + 1) \div 2 = n \div 2 + 1 /\ (n + 1) % 2 = 0
         /\ (n + 1 + 1) \div 2 = n \div 2 + 1
OBVIOUS

\* The four files are distinct.
LEMMA FourFiles ==
  /\ \A i \in 1..4 : WriteOrder[i] \in Files
  /\ \A i, j \in 1..4 : i # j => WriteOrder[i] # WriteOrder[j]
<1>1. /\ WriteOrder[1] = "ca.key" /\ WriteOrder[2] = "ca.crt"
      /\ WriteOrder[3] = "server.key" /\ WriteOrder[4] = "server.crt"
  BY DEF WriteOrder
<1>2. \A i \in 1..4 : i = 1 \/ i = 2 \/ i = 3 \/ i = 4
  OBVIOUS
<1> QED BY <1>1, <1>2 DEF Files

\* Where no file, no reading and no writing is concerned, nothing changes.
LEMMA QuietStep ==
  ASSUME GInv, TInv', UNCHANGED <<files, overlapped>>,
         \A p \in Processes : pc'[p] = "write" =>
            pc[p] = "write" /\ at'[p] = at[p] /\ gen'[p] = gen[p],
         \A p \in Servers : \/ loaded'[p] = <<>>
                            \/ loaded'[p] = loaded[p] /\ (pc'[p] = "load" => pc[p] = "load")
  PROVE  GInv'
<1>1. SUFFICES ASSUME ~overlapped PROVE (OneSet /\ NothingInTheWay)'
  BY DEF GInv
<1>2. OneSet /\ NothingInTheWay
  BY <1>1 DEF GInv
<1>3. NothingInTheWay'
  BY <1>2 DEF NothingInTheWay
<1>4. \A p \in Servers : \A i \in DOMAIN loaded'[p] : loaded'[p] = loaded[p]
  <2>1. DOMAIN <<>> = {}
    OBVIOUS
  <2> QED BY <2>1
<1>5. OneSet'
  BY <1>2, <1>4 DEF OneSet, Processes
<1> QED BY <1>3, <1>5

\* A bootstrap starts writing into an empty directory.
LEMMA CheckKeepsSets == ASSUME GInv, TInv', NEW p \in Processes, Check(p), UNCHANGED serverVars PROVE GInv'
<1>0. TInv /\ pc \in [Processes -> {"idle", "remove", "check", "write", "copy", "load"} \cup Serving]
  BY DEF GInv, TInv, ControlOK
<1>1. UNCHANGED <<files, overlapped, loaded>> /\ pc[p] = "check"
  BY DEF Check, serverVars
<1>2. p \in Servers => loaded[p] = <<>>
  BY <1>0, <1>1 DEF TInv, ControlOK, Serving
<1>3. CASE \E step \in {"idle", "load", "copy"} : Goto(p, step, 0, Nil)
  <2>1. \A q \in Processes : pc'[q] = "write" =>
            pc[q] = "write" /\ at'[q] = at[q] /\ gen'[q] = gen[q]
    BY <1>0, <1>3 DEF Goto, TInv, FilesTypeOK
  <2>2. \A q \in Servers : \/ loaded'[q] = <<>>
                           \/ loaded'[q] = loaded[q] /\ (pc'[q] = "load" => pc[q] = "load")
    BY <1>0, <1>1, <1>2, <1>3 DEF Goto, Processes
  <2> QED BY <1>1, <2>1, <2>2, QuietStep
<1>4. CASE Existing = {} /\ GenerateCA(p, 0)
  <2>1. \A f \in Files : files[f] = Nil
    BY <1>4 DEF Existing
  <2>2. Nil \notin Generation
    BY FilesAssumption DEF Generation
  <2>3. /\ pc'[p] = "write" /\ at'[p] = 0
        /\ \A q \in Processes \ {p} : pc'[q] = pc[q] /\ at'[q] = at[q]
    BY <1>0, <1>4 DEF GenerateCA, Goto, TInv, FilesTypeOK
  <2>4. ~overlapped => OneSet'
    BY <1>1, <2>1, <2>2, <2>3 DEF GInv, OneSet, Processes
  <2>5. ~overlapped => NothingInTheWay'
    <3>1. 0 % 2 = 0 /\ (0 + 1) \div 2 + 1 = 1
      OBVIOUS
    <3> SUFFICES ASSUME ~overlapped PROVE NothingInTheWay'
      OBVIOUS
    <3>2. \A i \in (at'[p] + 1) \div 2 + 1 .. 4 : files[WriteOrder[i]] = Nil
      BY <2>1, <2>3, <3>1, FourFiles
    <3> QED BY <1>1, <2>3, <3>1, <3>2 DEF GInv, NothingInTheWay
  <2> QED BY <1>1, <2>4, <2>5 DEF GInv
<1> QED BY <1>3, <1>4 DEF Check, AfterBootstrap, Exit

\* A bootstrap that nobody else interferes with keeps the files of its own
\* generation.
LEMMA WriteKeepsSets ==
  ASSUME GInv, TInv', NEW p \in Processes, Write(p), UNCHANGED serverVars
  PROVE  GInv'
<1>0. TInv
  BY DEF GInv
<1>1. SUFFICES ASSUME ~overlapped' PROVE (OneSet /\ NothingInTheWay)'
  BY DEF GInv
<1>2. /\ ~overlapped /\ OneSet /\ NothingInTheWay
      /\ \A q \in Processes \ {p} : pc[q] \notin {"write", "load", "copy"}
  BY <1>1 DEF Write, SetFile, Overlap, GInv
<1> DEFINE n == at[p]
           file == WriteOrder[n \div 2 + 1]
           content == IF n % 2 = 0 THEN Empty ELSE gen[p]
<1>3. /\ pc[p] = "write" /\ n \in 0..7 /\ gen[p] \in Generation
      /\ file \in Files
  BY <1>0, HalfWrites, FourFiles DEF Write, TInv, FilesTypeOK
<1>4. /\ files' = [files EXCEPT ![file] = content]
      /\ UNCHANGED loaded
  BY DEF Write, SetFile, serverVars
<1>5. \A f \in Files : files'[f] = IF f = file THEN content ELSE files[f]
  BY <1>0, <1>4 DEF TInv, FilesTypeOK
<1>6. /\ \A q \in Processes \ {p} : pc'[q] = pc[q]
      /\ \/ n = 7 /\ pc'[p] \in {"load", "copy"}
         \/ n # 7 /\ pc'[p] = "write" /\ at'[p] = n + 1 /\ gen'[p] = gen[p]
  BY <1>0 DEF Write, AfterBootstrap, Goto, TInv, FilesTypeOK, ControlOK
<1>7. \A f \in Files : files'[f] \in Generation => files'[f] = gen[p]
  BY <1>2, <1>3, <1>5, FilesAssumption DEF OneSet, Generation
<1>8. p \in Servers => loaded[p] = <<>> /\ DOMAIN loaded[p] = {}
  <2>1. p \in Servers => loaded[p] = <<>>
    BY <1>0, <1>3 DEF TInv, ControlOK, Serving
  <2>2. DOMAIN <<>> = {}
    OBVIOUS
  <2> QED BY <2>1, <2>2
<1>9. OneSet'
  <2> HIDE DEF content, file, n
  <2> QED BY <1>2, <1>3, <1>4, <1>6, <1>7, <1>8 DEF OneSet, Processes
<1>10. NothingInTheWay'
  <2> SUFFICES ASSUME n # 7
               PROVE  /\ (n + 1) % 2 = 1 => files'[WriteOrder[(n + 1) \div 2 + 1]] = Empty
                      /\ \A i \in (n + 1 + 1) \div 2 + 1 .. 4 : files'[WriteOrder[i]] = Nil
    BY <1>2, <1>6 DEF NothingInTheWay
  <2>0. PICK m \in 1..4 : m = n \div 2 + 1
    BY <1>3, HalfWrites
  <2>1. /\ (n + 1) \div 2 = m - 1 \/ (n + 1) \div 2 = m
        /\ (n + 1 + 1) \div 2 = m
        /\ (n + 1) % 2 = 1 => n % 2 = 0 /\ (n + 1) \div 2 + 1 = m
    BY <1>3, <2>0, HalfWrites
  <2>2. \A i \in m + 1 .. 4 : i \in 1..4 /\ i # m /\ i \in (n + 1) \div 2 + 1 .. 4
    BY <2>0, <2>1
  <2>3. \A i \in m + 1 .. 4 : files[WriteOrder[i]] = Nil
    BY <1>2, <1>3, <2>2 DEF NothingInTheWay
  <2>4. \A i \in m + 1 .. 4 : files'[WriteOrder[i]] = Nil
    BY <1>5, <2>0, <2>2, <2>3, FourFiles
  <2>5. n % 2 = 0 => files'[WriteOrder[m]] = Empty
    BY <1>3, <1>5, <2>0
  <2> QED BY <2>1, <2>4, <2>5
<1> QED BY <1>9, <1>10

\* A file that is gone is of no generation.
LEMMA RemoveKeepsSets ==
  ASSUME GInv, TInv', NEW p \in Processes, Remove(p), UNCHANGED serverVars
  PROVE  GInv'
<1>0. TInv
  BY DEF GInv
<1>1. SUFFICES ASSUME ~overlapped' PROVE (OneSet /\ NothingInTheWay)'
  BY DEF GInv
<1>2. /\ ~overlapped /\ OneSet
      /\ \A q \in Processes : pc[q] \notin {"write", "load", "copy"}
  BY <1>1 DEF Remove, SetFile, Overlap, GInv
<1>3. \A f \in Files : files'[f] \in {files[f], Nil}
  BY <1>0 DEF Remove, SetFile, TInv, FilesTypeOK
<1>4. \A q \in Processes : pc'[q] \notin {"write", "load", "copy"}
  BY <1>0, <1>2 DEF Remove, Goto, TInv, ControlOK
<1>5. OneSet'
  BY <1>2, <1>3, <1>4, FilesAssumption DEF OneSet, Generation, serverVars, Processes
<1> QED BY <1>4, <1>5 DEF NothingInTheWay

\* A file that is read is of the generation of those read before it.
LEMMA LoadKeepsSets == ASSUME GInv, TInv', NEW p \in Servers, Load(p) PROVE GInv'
<1>0. TInv
  BY DEF GInv
<1> DEFINE n == Len(loaded[p]) + 1
           content == files[ReadOrder[n]]
<1>1. UNCHANGED <<files, overlapped>> /\ pc[p] = "load"
  BY DEF Load
<1>2. CASE Ends(p)
  <2>1. \A q \in Processes : pc'[q] = "write" =>
            pc[q] = "write" /\ at'[q] = at[q] /\ gen'[q] = gen[q]
    BY <1>0, <1>2 DEF Ends, Exit, Goto, TInv, FilesTypeOK, ControlOK
  <2>2. \A q \in Servers : \/ loaded'[q] = <<>>
                           \/ loaded'[q] = loaded[q] /\ (pc'[q] = "load" => pc[q] = "load")
    BY <1>0, <1>2 DEF Ends, Exit, Goto, TInv, ControlOK, Processes
  <2> QED BY <1>1, <2>1, <2>2, QuietStep
<1>3. CASE /\ loaded' = [loaded EXCEPT ![p] = Append(@, content)]
           /\ content # Nil /\ (n # 3 => content \in Generation)
           /\ Goto(p, IF n = 7 THEN "serve" ELSE "load", 0, Nil)
  <2>1. SUFFICES ASSUME ~overlapped PROVE (OneSet /\ NothingInTheWay)'
    BY <1>1 DEF GInv
  <2>2. OneSet /\ NothingInTheWay
    BY <2>1 DEF GInv
  <2>3. /\ \A q \in Processes \ {p} : pc'[q] = pc[q] /\ at'[q] = at[q] /\ gen'[q] = gen[q]
        /\ pc'[p] # "write"
    BY <1>0, <1>3 DEF Goto, TInv, FilesTypeOK, ControlOK
  <2>4. NothingInTheWay'
    BY <1>1, <2>2, <2>3 DEF NothingInTheWay
  <2>5. n \in 1..7 /\ ReadOrder[n] \in Files
    BY <1>0, <1>1, ReadsFiles
  <2>6. /\ Len(loaded[p]) \in Nat /\ n = Len(loaded[p]) + 1
        /\ loaded[p] = <<>> => n = 1 /\ content = files["ca.crt"]
        /\ n = 3 => content = files["ca.crt"]
    BY <1>0, LoadedType DEF TInv, ReadOrder
  <2>13. content \in Generation
    <3>1. CASE n = 3
      <4>1. loaded[p] # <<>>
        BY <2>6, <3>1
      <4> QED BY <1>1, <2>2, <2>6, <3>1, <4>1 DEF OneSet
    <3> QED BY <1>3, <3>1
  <2>14. files["ca.crt"] = content
    <3> "ca.crt" \in Files
      BY DEF Files
    <3> QED BY <1>1, <2>2, <2>5, <2>6, <2>13 DEF OneSet
  <2>7. \A f \in Files : files[f] \in Generation => files[f] = content
    BY <2>2, <2>5, <2>13 DEF OneSet
  <2>8. \A i \in DOMAIN loaded[p] : loaded[p][i] = content
    BY <1>1, <2>2, <2>5, <2>13 DEF OneSet
  <2>9. \A i \in DOMAIN loaded'[p] : loaded'[p][i] = content
    <3>1. loaded[p] \in Seq(Readable) /\ DOMAIN loaded[p] = 1 .. Len(loaded[p])
      BY <1>0, LoadedType DEF TInv
    <3>2. loaded'[p] = Append(loaded[p], content)
      BY <1>0, <1>3 DEF TInv, ControlOK
    <3> HIDE DEF content
    <3> QED BY <2>8, <3>1, <3>2, AppendProperties
  <2>12. loaded'[p][1] = content
    <3>1. loaded[p] \in Seq(Readable) /\ Len(loaded[p]) \in Nat
      BY <1>0, LoadedType DEF TInv
    <3>2. loaded'[p] = Append(loaded[p], content)
      BY <1>0, <1>3 DEF TInv, ControlOK
    <3>3. 1 \in DOMAIN loaded'[p]
      <4> HIDE DEF content
      <4> QED BY <3>1, <3>2, AppendProperties
    <3> QED BY <2>9, <3>3
  <2>10. \A q \in Servers \ {p} : loaded'[q] = loaded[q]
    BY <1>0, <1>3 DEF TInv, ControlOK
  <2>11. OneSet'
    <3> HIDE DEF content, n
    <3> QED BY <1>1, <2>2, <2>3, <2>7, <2>9, <2>10, <2>12, <2>13, <2>14
            DEF OneSet, Processes
  <2> QED BY <2>4, <2>11
<1> QED BY <1>2, <1>3 DEF Load

\* Every step keeps the files and what was read of them together.
LEMMA SetsStep == ASSUME GInv, [SystemNext]_vars PROVE GInv'
<1>0. TInv /\ TInv'
  BY TInvStep DEF GInv
<1>q. pc \in [Processes -> {"idle", "remove", "check", "write", "copy", "load"} \cup Serving]
  BY <1>0 DEF TInv, ControlOK
<1> DEFINE
      Quiet == /\ UNCHANGED <<files, overlapped>>
               /\ \A p \in Processes : pc'[p] = "write" =>
                    pc[p] = "write" /\ at'[p] = at[p] /\ gen'[p] = gen[p]
               /\ \A p \in Servers :
                    \/ loaded'[p] = <<>>
                    \/ loaded'[p] = loaded[p] /\ (pc'[p] = "load" => pc[p] = "load")
<1>1. Quiet => GInv'
  BY <1>0, QuietStep
<1>2. ASSUME NEW p \in Processes, BootstrapStep(p), UNCHANGED serverVars PROVE GInv'
  <2>1. CASE StartServer(p) \/ StartCertgen(p) \/ Copy(p)
    <3>1. \E step \in {"idle", "check", "remove", "copy"} : \E n, g : Goto(p, step, n, g)
      BY <2>1 DEF StartServer, StartCertgen, Copy, Exit
    <3>2. UNCHANGED <<files, overlapped, loaded>>
      BY <1>2, <2>1 DEF StartServer, StartCertgen, Copy, serverVars
    <3>3. Quiet
      BY <1>0, <3>1, <3>2 DEF Goto, TInv, FilesTypeOK, ControlOK, Processes
    <3> QED BY <1>1, <3>3
  <2> QED BY <1>0, <1>2, <2>1, RemoveKeepsSets, CheckKeepsSets, WriteKeepsSets
          DEF BootstrapStep
<1>3. ASSUME NEW f \in Files, OperatorDeletes(f), UNCHANGED serverVars PROVE GInv'
  <2>1. \A g \in Files : files'[g] \in {files[g], Nil}
    BY <1>0, <1>3 DEF OperatorDeletes, TInv, FilesTypeOK
  <2>2. \A p \in Processes : pc'[p] = "idle"
    BY <1>3 DEF OperatorDeletes
  <2>3. UNCHANGED <<overlapped, loaded>>
    BY <1>3 DEF OperatorDeletes, serverVars
  <2>4. ~overlapped => OneSet'
    BY <2>1, <2>2, <2>3, FilesAssumption DEF GInv, OneSet, Generation, Processes
  <2> QED BY <1>0, <2>2, <2>3, <2>4 DEF GInv, NothingInTheWay
<1>4. ASSUME NEW p \in Servers, Select(p) \/ EnrollShutdownReturns(p) PROVE Quiet
  <2>1. \E port \in Ports : StartShutdown(p, port)
    BY <1>4 DEF Select, EnrollShutdownReturns, Ports
  <2> QED BY <1>0, <2>1 DEF StartShutdown, Goto, Ports, TInv, FilesTypeOK, ControlOK, Processes
<1>5. ASSUME NEW p \in Servers, Ends(p), UNCHANGED <<files, overlapped>> PROVE Quiet
  BY <1>0, <1>5 DEF Ends, Exit, Goto, TInv, FilesTypeOK, ControlOK, Processes
<1>6. ASSUME NEW p \in Servers, Signal(p) \/ DeadlinePasses(p) PROVE Quiet
  BY <1>6 DEF Signal, DeadlinePasses, filesVars
<1>7. ASSUME NEW p \in Servers, NEW port \in Ports, ListenerStep(p, port) PROVE Quiet
  BY <1>7 DEF ListenerStep, Listen, ListenerFails, SetListener, ReceiveRequest,
              AnswerRequest, filesVars
<1>8. ASSUME NEW p \in Processes, Kill(p) PROVE Quiet
  <2>1. CASE p \in Servers
    BY <1>5, <1>8, <2>1 DEF Kill
  <2>2. CASE p \notin Servers
    BY <1>0, <1>8, <2>2 DEF Kill, Exit, Goto, TInv, FilesTypeOK, ControlOK, Processes
  <2> QED BY <2>1, <2>2
<1>9. CASE UNCHANGED vars
  <2>1. Quiet
    BY <1>9 DEF vars, filesVars, serverVars
  <2> QED BY <1>1, <2>1
<1> HIDE DEF Quiet
<1>10. ASSUME NEW p \in Servers, MainStep(p) PROVE GInv'
  BY <1>0, <1>1, <1>4, <1>5, <1>10, LoadKeepsSets DEF MainStep, MtlsShutdownReturns
<1> QED BY <1>1, <1>2, <1>3, <1>6, <1>7, <1>8, <1>9, <1>10 DEF SystemNext

\* Hence the sets of files are always as GInv says.
LEMMA SetsAlways == Spec => []GInv
<1>1. Init => GInv
  <2> SUFFICES ASSUME Init PROVE OneSet /\ NothingInTheWay
    BY TInvInit DEF GInv
  <2>1. Nil \notin Generation
    BY FilesAssumption DEF Generation
  <2>2. DOMAIN <<>> = {}
    OBVIOUS
  <2> QED BY <2>1, <2>2 DEF Init, FilesInit, OneSet, NothingInTheWay, Processes
<1> QED BY <1>1, SetsStep, PTL DEF Spec

\* bootstrap.go:35-40.  Refusing partial sets is what makes a server's CA,
\* CA key and TLS pair belong together, whatever was killed before.
THEOREM ServedGenerationIsOne == Spec => []ServesOneGeneration
<1>1. GInv => ServesOneGeneration
  <2> SUFFICES ASSUME GInv, NEW p \in Servers, pc[p] \in Serving, ~overlapped
               PROVE  loaded[p] = [i \in 1..7 |-> loaded[p][1]]
    BY DEF ServesOneGeneration
  <2>1. TInv /\ OneSet
    BY DEF GInv
  <2>2. DOMAIN loaded[p] = 1..7 /\ loaded[p] \in [1..7 -> Readable]
    BY <2>1, LoadedType, LenProperties DEF TInv
  <2>3. \A i \in 1..7 : loaded[p][i] = loaded[p][1]
    BY <2>1, <2>2 DEF OneSet
  <2> QED BY <2>2, <2>3
<1> QED BY <1>1, SetsAlways, PTL

\* bootstrap.go:37-40.  No bootstrap overwrites what another one has left.
THEOREM FilesKept == Spec => ExistingFilesAreKept
<1> DEFINE Kept(f) ==
        files[f] # Nil /\ files'[f] # files[f] =>
            \/ files'[f] = Nil
            \/ overlapped'
            \/ files[f] = Empty /\ \E p \in Processes :
                  /\ pc[p] = "write" /\ at[p] % 2 = 1
                  /\ f = WriteOrder[at[p] \div 2 + 1]
<1>1. GInv /\ [SystemNext]_vars => [\A f \in Files : Kept(f)]_vars
  <2> SUFFICES ASSUME GInv, [SystemNext]_vars, NEW f \in Files PROVE Kept(f)
    OBVIOUS
  <2>0. TInv /\ (overlapped => overlapped')
    BY OverlapIsRemembered DEF GInv
  <2>1. ASSUME NEW p \in Processes, Write(p) PROVE Kept(f)
    <3> SUFFICES ASSUME ~overlapped', files[f] # Nil, files'[f] # files[f]
                 PROVE  /\ files[f] = Empty
                        /\ pc[p] = "write" /\ at[p] % 2 = 1
                        /\ f = WriteOrder[at[p] \div 2 + 1]
      OBVIOUS
    <3>1. f = WriteOrder[at[p] \div 2 + 1] /\ pc[p] = "write" /\ at[p] \in 0..7
      BY <2>0, <2>1 DEF Write, SetFile, TInv, FilesTypeOK
    <3>2. NothingInTheWay
      BY <2>0 DEF GInv
    <3>3. at[p] % 2 # 0
      <4> SUFFICES ASSUME at[p] % 2 = 0 PROVE FALSE
        OBVIOUS
      <4>1. (at[p] + 1) \div 2 = at[p] \div 2 /\ at[p] \div 2 + 1 \in 1..4
        BY <3>1, HalfWrites
      <4>2. at[p] \div 2 + 1 \in (at[p] + 1) \div 2 + 1 .. 4
        BY <4>1
      <4> QED BY <3>1, <3>2, <4>2 DEF NothingInTheWay
    <3>4. at[p] % 2 = 1
      BY <3>1, <3>3, HalfWrites
    <3> QED BY <3>1, <3>2, <3>4 DEF NothingInTheWay
  <2>2. ASSUME NEW p \in Processes, Remove(p) PROVE Kept(f)
    BY <2>0, <2>2 DEF Remove, SetFile, TInv, FilesTypeOK
  <2>3. ASSUME NEW g \in Files, OperatorDeletes(g) PROVE Kept(f)
    BY <2>0, <2>3 DEF OperatorDeletes, TInv, FilesTypeOK
  <2>4. CASE UNCHANGED files
    BY <2>4
  <2>5. \/ \E p \in Processes : Write(p) \/ Remove(p)
        \/ \E g \in Files : OperatorDeletes(g)
        \/ UNCHANGED files
    BY DEF SystemNext, BootstrapStep, StartServer, StartCertgen, Check, Copy, MainStep,
           Load, Select, EnrollShutdownReturns, MtlsShutdownReturns, StartShutdown, Signal,
           DeadlinePasses, ListenerStep, Listen, ListenerFails, SetListener,
           ReceiveRequest, AnswerRequest, Kill, vars, filesVars
  <2> QED BY <2>1, <2>2, <2>3, <2>4, <2>5
<1> QED BY <1>1, SetsAlways, PTL DEF Spec, ExistingFilesAreKept

-----------------------------------------------------------------------------
(* The CA that the debug build trusts                                      *)

\* p has minted a CA and not written ca.crt yet.
NotYetPlaced(p) == pc[p] = "write" /\ at[p] <= 3

\* Generations are numbered, and each has one author.
OwnGenerations ==
    /\ \A f \in Files : files[f] \in Generation => files[f] <= generations
    /\ \A p \in Processes : gen[p] \in Generation => gen[p] <= generations
    /\ \A g \in finished : g <= generations
    /\ \A p, q \in Processes : pc[p] = "write" /\ pc[q] = "write" /\ p # q =>
         gen[p] # gen[q]

\* A CA not yet placed is one that nobody has seen.
FreshCA ==
    \A p \in Processes : NotYetPlaced(p) =>
        /\ gen[p] \notin finished
        /\ gen[p] # files["ca.crt"]
        /\ \A q \in Processes : pc[q] = "copy" => gen[q] # gen[p]

\* Certgen is past the removal of ca.crt, if there was one.
Renewing(c) == pc[c] \in {"check", "write", "copy"} \/ (pc[c] = "remove" /\ at[c] # 0)

\* From there on the file is of a CA that certgen has not reported.
Superseded == \A c \in Certgens : Renewing(c) => files["ca.crt"] \notin finished

DInv == TInv /\ OwnGenerations /\ FreshCA /\ Superseded /\ DebugCAIsCurrent

\* DebugCAIsCurrent is about one certgen: of two, the slower one may put the
\* older CA back.
OneCertgen == \A c, d \in Certgens : c = d

\* Which of the steps concern the files, the copy, or a program counter that
\* DInv looks at.
LEMMA DebugCAQuiet ==
  ASSUME DInv, TInv', UNCHANGED <<files, debugCA, generations, finished>>,
         \A p \in Processes :
            \/ pc'[p] = pc[p] /\ at'[p] = at[p] /\ gen'[p] = gen[p]
            \/ pc'[p] \notin {"write", "copy"} /\ gen'[p] = Nil
               /\ (p \in Certgens /\ Renewing(p)' => Renewing(p) \/ files["ca.crt"] = Nil)
  PROVE  DInv'
<1>0. Nil \notin Generation /\ finished \subseteq Generation
  BY FilesAssumption DEF Generation, DInv, TInv, FilesTypeOK
<1>1. OwnGenerations'
  BY <1>0 DEF DInv, OwnGenerations
<1>2. FreshCA'
  BY DEF DInv, FreshCA, NotYetPlaced
<1>3. Superseded'
  BY <1>0 DEF DInv, Superseded, Renewing, Processes
<1>4. DebugCAIsCurrent'
  BY DEF DInv, DebugCAIsCurrent
<1> QED BY <1>1, <1>2, <1>3, <1>4 DEF DInv

\* A new CA is a new number.
LEMMA DebugCACheck ==
  ASSUME DInv, TInv', NEW p \in Processes, Check(p), UNCHANGED serverVars
  PROVE  DInv'
<1>0. /\ DOMAIN pc = Processes /\ DOMAIN at = Processes /\ DOMAIN gen = Processes
      /\ generations \in Nat /\ finished \subseteq Generation
  BY DEF DInv, TInv, FilesTypeOK
<1>1. UNCHANGED <<files, debugCA, finished>> /\ pc[p] = "check"
  BY DEF Check
<1>2. Nil \notin Generation /\ \A g \in Generation : g \in Nat
  BY FilesAssumption DEF Generation
<1>3. CASE GenerateCA(p, 0)
  <2>1. /\ generations' = generations + 1 /\ generations' \in Generation
        /\ pc'[p] = "write" /\ at'[p] = 0 /\ gen'[p] = generations + 1
        /\ \A q \in Processes \ {p} : pc'[q] = pc[q] /\ at'[q] = at[q] /\ gen'[q] = gen[q]
    BY <1>0, <1>3, FilesAssumption DEF GenerateCA, Goto, Generation
  <2>2. \A g \in Generation : g <= generations => g <= generations' /\ g # generations'
    <3>1. ASSUME NEW g \in Nat, NEW m \in Nat, g <= m
          PROVE  g <= m + 1 /\ g # m + 1
      BY <3>1
    <3>2. generations \in Nat /\ generations' = generations + 1
      BY <1>0, <2>1
    <3> QED BY <1>2, <3>1, <3>2
  <2>3. OwnGenerations'
    <3>1. \A f \in Files : files'[f] \in Generation => files'[f] <= generations'
      BY <1>1, <2>2 DEF DInv, OwnGenerations
    <3>2. \A q \in Processes : gen'[q] \in Generation => gen'[q] <= generations'
      <4>1. gen'[p] <= generations'
        BY <1>0, <2>1
      <4>2. \A q \in Processes \ {p} : gen[q] \in Generation => gen[q] <= generations'
        BY <2>2 DEF DInv, OwnGenerations
      <4> QED BY <2>1, <4>1, <4>2
    <3>3. \A g \in finished' : g <= generations'
      BY <1>0, <1>1, <2>2 DEF DInv, OwnGenerations
    <3>4. \A q \in Processes \ {p} : pc[q] = "write" => gen[q] # generations'
      BY <2>2 DEF DInv, OwnGenerations, TInv, FilesTypeOK
    <3> QED BY <2>1, <3>1, <3>2, <3>3, <3>4 DEF DInv, OwnGenerations
  <2>4. FreshCA'
    <3>1. /\ generations' \notin finished /\ generations' # files["ca.crt"]
          /\ \A q \in Processes : generations' # gen[q]
      BY <1>0, <2>1, <2>2 DEF DInv, OwnGenerations, Files
    <3> QED BY <1>1, <2>1, <3>1 DEF DInv, FreshCA, NotYetPlaced
  <2>5. Superseded'
    BY <1>1, <2>1 DEF DInv, Superseded, Renewing, Processes
  <2>6. DebugCAIsCurrent'
    BY <1>1 DEF DInv, DebugCAIsCurrent
  <2> QED BY <2>3, <2>4, <2>5, <2>6 DEF DInv
<1>4. CASE AfterBootstrap(p) /\ UNCHANGED generations
  <2>1. /\ pc'[p] \in {"load", "copy"} /\ gen'[p] = Nil
        /\ \A q \in Processes \ {p} : pc'[q] = pc[q] /\ at'[q] = at[q] /\ gen'[q] = gen[q]
    BY <1>0, <1>4 DEF AfterBootstrap, Goto
  <2>2. OwnGenerations'
    BY <1>1, <1>2, <1>4, <2>1 DEF DInv, OwnGenerations
  <2>3. FreshCA'
    BY <1>1, <1>2, <2>1 DEF DInv, FreshCA, NotYetPlaced, TInv, FilesTypeOK
  <2>4. Superseded'
    BY <1>1, <2>1 DEF DInv, Superseded, Renewing, Processes
  <2>5. DebugCAIsCurrent'
    BY <1>1 DEF DInv, DebugCAIsCurrent
  <2> QED BY <2>2, <2>3, <2>4, <2>5 DEF DInv
<1>5. CASE Exit(p) /\ UNCHANGED generations
  <2>1. /\ pc'[p] = "idle" /\ gen'[p] = Nil
        /\ \A q \in Processes \ {p} : pc'[q] = pc[q] /\ at'[q] = at[q] /\ gen'[q] = gen[q]
    BY <1>0, <1>5 DEF Exit, Goto
  <2> QED BY <1>1, <1>5, <2>1, DebugCAQuiet DEF Renewing
<1> QED BY <1>3, <1>4, <1>5 DEF Check

\* The second file that a bootstrap writes is ca.crt.
LEMMA CAFileIsSecond ==
  ASSUME NEW n \in 0..7
  PROVE  WriteOrder[n \div 2 + 1] = "ca.crt" <=> n \in {2, 3}
<1>1. n = 0 \/ n = 1 \/ n = 2 \/ n = 3 \/ n = 4 \/ n = 5 \/ n = 6 \/ n = 7
  OBVIOUS
<1>2. /\ 0 \div 2 + 1 = 1 /\ 1 \div 2 + 1 = 1 /\ 2 \div 2 + 1 = 2 /\ 3 \div 2 + 1 = 2
      /\ 4 \div 2 + 1 = 3 /\ 5 \div 2 + 1 = 3 /\ 6 \div 2 + 1 = 4 /\ 7 \div 2 + 1 = 4
  OBVIOUS
<1> QED BY <1>1, <1>2 DEF WriteOrder

\* A CA is placed over one that certgen has reported, or over none.
LEMMA DebugCAWrite ==
  ASSUME DInv, TInv', NEW p \in Processes, Write(p), UNCHANGED serverVars
  PROVE  DInv'
<1> DEFINE n == at[p]
           file == WriteOrder[n \div 2 + 1]
           content == IF n % 2 = 0 THEN Empty ELSE gen[p]
<1>0. /\ DOMAIN pc = Processes /\ DOMAIN at = Processes /\ DOMAIN gen = Processes
      /\ DOMAIN files = Files /\ finished \subseteq Generation
      /\ n \in 0..7 /\ pc[p] = "write" /\ gen[p] \in Generation
  BY DEF DInv, TInv, FilesTypeOK, Write
<1>1. Nil \notin Generation /\ Empty \notin Generation
  BY FilesAssumption DEF Generation
<1>2. UNCHANGED <<debugCA, generations, finished>>
  BY DEF Write
<1>3. \A f \in Files : files'[f] = IF f = file THEN content ELSE files[f]
  BY <1>0 DEF Write, SetFile
<1>4. /\ \A q \in Processes \ {p} : pc'[q] = pc[q] /\ at'[q] = at[q] /\ gen'[q] = gen[q]
      /\ \/ n = 7 /\ pc'[p] \in {"load", "copy"} /\ gen'[p] = Nil
         \/ n # 7 /\ pc'[p] = "write" /\ at'[p] = n + 1 /\ gen'[p] = gen[p]
  BY <1>0 DEF Write, AfterBootstrap, Goto
<1>5. files'["ca.crt"] = IF n = 2 THEN Empty ELSE IF n = 3 THEN gen[p] ELSE files["ca.crt"]
  <2>1. 2 % 2 = 0 /\ 3 % 2 # 0
    OBVIOUS
  <2>2. "ca.crt" \in Files /\ (file = "ca.crt" <=> n \in {2, 3})
    BY <1>0, CAFileIsSecond DEF Files
  <2> HIDE DEF file
  <2> QED BY <1>3, <2>1, <2>2
<1>6. OwnGenerations'
  <2>1. \A f \in Files : files'[f] \in Generation => files'[f] <= generations
    <3> HIDE DEF file, n
    <3> QED BY <1>0, <1>1, <1>3 DEF DInv, OwnGenerations
  <2>2. /\ \A q \in Processes : gen'[q] \in {gen[q], Nil}
        /\ \A q \in Processes : pc'[q] = "write" => pc[q] = "write" /\ gen'[q] = gen[q]
    BY <1>0, <1>4
  <2>3. \A q \in Processes : gen'[q] \in Generation => gen'[q] <= generations
    BY <1>1, <2>2 DEF DInv, OwnGenerations
  <2>4. \A q, r \in Processes : pc'[q] = "write" /\ pc'[r] = "write" /\ q # r =>
          gen'[q] # gen'[r]
    BY <2>2 DEF DInv, OwnGenerations
  <2> QED BY <1>2, <2>1, <2>3, <2>4 DEF DInv, OwnGenerations
<1>7. \A q \in Processes : NotYetPlaced(q)' => NotYetPlaced(q) /\ gen'[q] = gen[q]
  <2>1. n + 1 <= 3 => n <= 3
    BY <1>0
  <2> QED BY <1>0, <1>4, <2>1 DEF NotYetPlaced
<1>8. \A q \in Processes : NotYetPlaced(q)' => gen[q] # files'["ca.crt"]
  <2> SUFFICES ASSUME NEW q \in Processes, NotYetPlaced(q)'
               PROVE  gen[q] # files'["ca.crt"]
    OBVIOUS
  <2>1. gen[q] \in Generation /\ pc[q] = "write" /\ gen[q] # files["ca.crt"]
    BY <1>7 DEF NotYetPlaced, DInv, FreshCA, TInv, FilesTypeOK
  <2>2. CASE q # p
    BY <1>0, <1>1, <1>5, <2>1, <2>2 DEF DInv, OwnGenerations
  <2>3. CASE q = p
    <3>1. n # 3
      <4>1. ~(3 + 1 <= 3)
        OBVIOUS
      <4> QED BY <1>4, <2>3, <4>1 DEF NotYetPlaced
    <3> QED BY <1>1, <1>5, <2>1, <3>1
  <2> QED BY <2>2, <2>3
<1>9. FreshCA'
  <2>1. \A q \in Processes : pc'[q] = "copy" => gen'[q] = Nil \/ (pc[q] = "copy" /\ gen'[q] = gen[q])
    BY <1>4
  <2>2. \A q \in Processes : NotYetPlaced(q)' => gen[q] \in Generation
    BY <1>7 DEF NotYetPlaced, DInv, TInv, FilesTypeOK
  <2> QED BY <1>1, <1>2, <1>7, <1>8, <2>1, <2>2 DEF DInv, FreshCA
<1>10. files'["ca.crt"] = files["ca.crt"] \/ files'["ca.crt"] \notin finished
  <2>1. n = 3 => NotYetPlaced(p)
    BY <1>0 DEF NotYetPlaced
  <2> QED BY <1>0, <1>1, <1>5, <2>1 DEF DInv, FreshCA
<1>11. Superseded'
  <2>1. \A c \in Certgens : Renewing(c)' => Renewing(c)
    BY <1>0, <1>4 DEF Renewing, Processes
  <2> QED BY <1>2, <1>10, <2>1 DEF DInv, Superseded
<1>12. DebugCAIsCurrent'
  BY <1>2, <1>10 DEF DInv, DebugCAIsCurrent
<1> QED BY <1>6, <1>9, <1>11, <1>12 DEF DInv

\* Certgen copies a CA that it has not reported, and reports it.
LEMMA DebugCACopy ==
  ASSUME DInv, OneCertgen, TInv', NEW p \in Processes, Copy(p), UNCHANGED serverVars
  PROVE  DInv'
<1>0. /\ DOMAIN pc = Processes /\ DOMAIN at = Processes /\ DOMAIN gen = Processes
      /\ finished \subseteq Generation /\ Nil \notin Generation
      /\ p \in Certgens /\ pc[p] = "copy" /\ (at[p] # 0 => gen[p] \in Readable)
  BY FilesAssumption DEF DInv, TInv, FilesTypeOK, ControlOK, Copy, Generation
<1>1. UNCHANGED <<files, generations>>
  BY DEF Copy
<1>2. files["ca.crt"] \notin finished
  BY <1>0 DEF DInv, Superseded, Renewing
<1>3. CASE Exit(p) /\ UNCHANGED <<debugCA, finished>>
  <2>1. /\ pc'[p] = "idle" /\ gen'[p] = Nil
        /\ \A q \in Processes \ {p} : pc'[q] = pc[q] /\ at'[q] = at[q] /\ gen'[q] = gen[q]
    BY <1>0, <1>3 DEF Exit, Goto
  <2> QED BY <1>1, <1>3, <2>1, DebugCAQuiet DEF Renewing
<1>4. CASE \E n, g : /\ Goto(p, "copy", n, g) /\ UNCHANGED finished
                     /\ g = files["ca.crt"] \/ g = gen[p]
  <2>1. /\ pc'[p] = "copy" /\ gen'[p] \in {files["ca.crt"], gen[p]}
        /\ \A q \in Processes \ {p} : pc'[q] = pc[q] /\ at'[q] = at[q] /\ gen'[q] = gen[q]
    BY <1>0, <1>4 DEF Goto
  <2>2. OwnGenerations'
    BY <1>1, <1>4, <2>1 DEF DInv, OwnGenerations, Files
  <2>3. FreshCA'
    BY <1>0, <1>1, <1>4, <2>1 DEF DInv, FreshCA, NotYetPlaced
  <2>4. Superseded'
    BY <1>1, <1>2, <1>4 DEF Superseded
  <2>5. DebugCAIsCurrent'
    BY <1>1, <1>2, <1>4 DEF DebugCAIsCurrent
  <2> QED BY <2>2, <2>3, <2>4, <2>5 DEF DInv
<1>5. CASE /\ at[p] = 2 /\ Exit(p)
           /\ debugCA' = gen[p] /\ finished' = finished \cup ({gen[p]} \cap Generation)
  <2>1. /\ pc'[p] = "idle" /\ gen'[p] = Nil
        /\ \A q \in Processes \ {p} : pc'[q] = pc[q] /\ at'[q] = at[q] /\ gen'[q] = gen[q]
    BY <1>0, <1>5 DEF Exit, Goto
  <2>2. OwnGenerations'
    BY <1>0, <1>1, <1>5, <2>1 DEF DInv, OwnGenerations
  <2>3. FreshCA'
    BY <1>0, <1>1, <1>5, <2>1 DEF DInv, FreshCA, NotYetPlaced
  <2>4. Superseded'
    BY <1>0, <2>1 DEF Superseded, Renewing, OneCertgen
  <2>5. DebugCAIsCurrent'
    BY <1>1, <1>2, <1>5 DEF DebugCAIsCurrent
  <2> QED BY <2>2, <2>3, <2>4, <2>5 DEF DInv
<1> QED BY <1>3, <1>4, <1>5 DEF Copy

\* The first file that certgen -force removes is ca.crt.
LEMMA DebugCARemove ==
  ASSUME DInv, TInv', NEW p \in Processes, Remove(p), UNCHANGED serverVars
  PROVE  DInv'
<1>0. /\ DOMAIN pc = Processes /\ DOMAIN at = Processes /\ DOMAIN gen = Processes
      /\ DOMAIN files = Files /\ finished \subseteq Generation /\ Nil \notin Generation
      /\ p \in Certgens /\ pc[p] = "remove"
  BY FilesAssumption DEF DInv, TInv, FilesTypeOK, ControlOK, Remove, Generation
<1>1. UNCHANGED <<debugCA, generations, finished>>
  BY DEF Remove
<1>2. \A f \in Files : files'[f] \in {files[f], Nil}
  BY <1>0 DEF Remove, SetFile
<1>3. at[p] = 0 => files'["ca.crt"] = Nil
  BY <1>0 DEF Remove, SetFile, RemoveOrder, Files
<1>4. /\ pc'[p] \in {"remove", "check"} /\ gen'[p] = Nil
      /\ \A q \in Processes \ {p} : pc'[q] = pc[q] /\ at'[q] = at[q] /\ gen'[q] = gen[q]
  BY <1>0 DEF Remove, Goto
<1>5. files'["ca.crt"] \in {files["ca.crt"], Nil}
  BY <1>2 DEF Files
<1>6. OwnGenerations'
  BY <1>0, <1>1, <1>2, <1>4 DEF DInv, OwnGenerations
<1>7. FreshCA'
  <2>1. \A q \in Processes : NotYetPlaced(q)' => NotYetPlaced(q) /\ gen'[q] = gen[q] /\ gen[q] \in Generation
    BY <1>4 DEF NotYetPlaced, DInv, TInv, FilesTypeOK
  <2> QED BY <1>0, <1>1, <1>4, <1>5, <2>1 DEF DInv, FreshCA
<1>8. Superseded'
  <2>1. \A c \in Certgens : Renewing(c)' => Renewing(c) \/ c = p
    BY <1>4 DEF Renewing, Processes
  <2>2. \/ files'["ca.crt"] \notin finished
        \/ files'["ca.crt"] = files["ca.crt"] /\ at[p] # 0
    BY <1>0, <1>3, <1>5
  <2>3. at[p] # 0 => Renewing(p)
    BY <1>0 DEF Renewing
  <2> QED BY <1>0, <1>1, <1>5, <2>1, <2>2, <2>3 DEF DInv, Superseded
<1>9. DebugCAIsCurrent'
  BY <1>0, <1>1, <1>5 DEF DInv, DebugCAIsCurrent
<1> QED BY <1>6, <1>7, <1>8, <1>9 DEF DInv

\* Every step keeps the debug build's CA current.
LEMMA DebugCAStep == ASSUME DInv, OneCertgen, [SystemNext]_vars PROVE DInv'
<1>0. TInv' /\ DOMAIN pc = Processes /\ DOMAIN at = Processes /\ DOMAIN gen = Processes
  BY TInvStep DEF DInv, TInv, FilesTypeOK
<1>1. ASSUME NEW p \in Processes, BootstrapStep(p), UNCHANGED serverVars PROVE DInv'
  <2>1. CASE StartServer(p)
    <3>1. /\ pc'[p] = "check" /\ gen'[p] = Nil /\ p \notin Certgens
          /\ \A q \in Processes \ {p} : pc'[q] = pc[q] /\ at'[q] = at[q] /\ gen'[q] = gen[q]
      BY <1>0, <2>1, FilesAssumption DEF StartServer, Goto
    <3> QED BY <1>0, <2>1, <3>1, DebugCAQuiet DEF StartServer
  <2>2. CASE StartCertgen(p)
    <3>1. /\ pc'[p] \in {"check", "remove"} /\ gen'[p] = Nil /\ at'[p] = 0
          /\ pc'[p] = "check" => files["ca.crt"] = Nil
          /\ \A q \in Processes \ {p} : pc'[q] = pc[q] /\ at'[q] = at[q] /\ gen'[q] = gen[q]
      BY <1>0, <2>2 DEF StartCertgen, Goto, Existing, Files
    <3> QED BY <1>0, <2>2, <3>1, DebugCAQuiet DEF StartCertgen, Renewing
  <2> QED BY <1>0, <1>1, <2>1, <2>2, DebugCACheck, DebugCAWrite, DebugCACopy, DebugCARemove
          DEF BootstrapStep
<1>2. ASSUME NEW f \in Files, OperatorDeletes(f), UNCHANGED serverVars PROVE DInv'
  <2>1. /\ UNCHANGED <<debugCA, generations, finished, pc, at, gen>>
        /\ \A p \in Processes : pc[p] = "idle"
    BY <1>2 DEF OperatorDeletes
  <2>2. \A g \in Files : files'[g] \in {files[g], Nil}
    BY <1>2 DEF OperatorDeletes, DInv, TInv, FilesTypeOK
  <2>3. Nil \notin Generation /\ finished \subseteq Generation /\ "ca.crt" \in Files
    BY FilesAssumption DEF Generation, DInv, TInv, FilesTypeOK, Files
  <2> QED BY <1>0, <2>1, <2>2, <2>3
          DEF DInv, OwnGenerations, FreshCA, NotYetPlaced, Superseded, Renewing,
              DebugCAIsCurrent, Processes
<1>3. ASSUME UNCHANGED <<files, debugCA, generations, finished>>,
             \E p \in Processes, step \in {"idle", "load"} \cup Serving : Goto(p, step, 0, Nil)
      PROVE  DInv'
  <2>1. PICK p \in Processes :
          /\ pc'[p] \in {"idle", "load"} \cup Serving /\ gen'[p] = Nil
          /\ \A q \in Processes \ {p} : pc'[q] = pc[q] /\ at'[q] = at[q] /\ gen'[q] = gen[q]
    BY <1>0, <1>3 DEF Goto
  <2> QED BY <1>0, <1>3, <2>1, DebugCAQuiet DEF Renewing, Serving
<1>4. ASSUME NEW p \in Servers, MainStep(p) PROVE DInv'
  <2>1. CASE Load(p)
    BY <1>3, <2>1 DEF Load, Ends, Exit, Serving, Processes
  <2>2. CASE Select(p) \/ EnrollShutdownReturns(p)
    BY <1>3, <2>2 DEF Select, EnrollShutdownReturns, StartShutdown, Serving, Processes
  <2>3. CASE MtlsShutdownReturns(p)
    BY <1>3, <2>3 DEF MtlsShutdownReturns, Ends, Exit, Processes
  <2> QED BY <1>4, <2>1, <2>2, <2>3 DEF MainStep
<1>5. ASSUME NEW p \in Processes, Kill(p) PROVE DInv'
  BY <1>3, <1>5 DEF Kill, Ends, Exit
<1>6. ASSUME UNCHANGED filesVars PROVE DInv'
  BY <1>0, <1>6, DebugCAQuiet DEF filesVars
<1>7. ASSUME NEW p \in Servers, Signal(p) \/ DeadlinePasses(p) PROVE DInv'
  BY <1>6, <1>7 DEF Signal, DeadlinePasses
<1>8. ASSUME NEW p \in Servers, NEW port \in Ports, ListenerStep(p, port) PROVE DInv'
  BY <1>6, <1>8 DEF ListenerStep, Listen, ListenerFails, SetListener, ReceiveRequest,
                    AnswerRequest
<1> QED BY <1>1, <1>2, <1>4, <1>5, <1>6, <1>7, <1>8 DEF SystemNext, vars

\* certgen/main.go:63, 73-92.  What certgen has reported the debug build
\* trusts, whichever servers bootstrap beside it and whatever is killed.
THEOREM DebugBuildTrustsCA == OneCertgen => (Spec => []DebugCAIsCurrent)
<1> SUFFICES ASSUME OneCertgen PROVE Spec => []DebugCAIsCurrent
  OBVIOUS
<1>1. Init => DInv
  <2> SUFFICES ASSUME Init PROVE OwnGenerations /\ FreshCA /\ Superseded /\ DebugCAIsCurrent
    BY TInvInit DEF DInv
  <2>1. Nil \notin Generation
    BY FilesAssumption DEF Generation
  <2>2. /\ \A f \in Files : files[f] = Nil
        /\ \A p \in Processes : pc[p] = "idle" /\ gen[p] = Nil
        /\ finished = {}
    BY DEF Init, FilesInit
  <2>3. OwnGenerations
    BY <2>1, <2>2 DEF OwnGenerations
  <2> QED BY <2>2, <2>3 DEF FreshCA, NotYetPlaced, Superseded, Renewing,
                            DebugCAIsCurrent, Processes
<1>2. DInv /\ [SystemNext]_vars => DInv'
  BY DebugCAStep
<1>3. DInv => DebugCAIsCurrent
  BY DEF DInv
<1> QED BY <1>1, <1>2, <1>3, PTL DEF Spec
=============================================================================
