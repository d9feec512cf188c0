--------------------------- MODULE ServerProcess ---------------------------
(***************************************************************************)
(* The life of the backend process, backend/cmd/server/main.go, over the   *)
(* certificate directory:                                                  *)
(*   check  write     ensureCertificates (CertificateFiles)                *)
(*   load             LoadCA, the CA's PEM and the two TLS key pairs, file *)
(*                    by file                                              *)
(*   serve            a goroutine per listener; main waits for a signal or *)
(*                    for a listener that has failed                       *)
(*   enroll  mtls     Shutdown of the two http.Servers, one after the      *)
(*                    other, under one 5 s context                         *)
(* What net/http does between Listen and Shutdown is external; a server    *)
(* has one request in flight per port at most.                             *)
(***************************************************************************)
EXTENDS CertificateFiles

VARIABLES
    loaded,     \* the generations of the files a server has read, in order
    listener,   \* what became of each port's ListenAndServeTLS
    busy,       \* the ports at which a server has a request in flight
    signalled,  \* servers whose quit channel holds a signal
    expired,    \* servers whose shutdown context is past its deadline
    cut         \* history: a shutdown cut a request before the deadline

serverVars == <<loaded, listener, busy, signalled, expired, cut>>
vars == <<filesVars, serverVars>>

Ports == {"enroll", "mtls"}
Serving == {"serve", "enroll", "mtls"}

ReadOrder == <<"ca.crt", "ca.key", "ca.crt",
               "server.crt", "server.key", "server.crt", "server.key">>

TypeOK ==
    /\ FilesTypeOK
    /\ pc \in [Processes -> {"idle", "remove", "check", "write", "copy", "load"}
                            \cup Serving]
    /\ \A p \in Servers :
         /\ DOMAIN loaded[p] \subseteq 1..7
         /\ \A i \in DOMAIN loaded[p] :
              loaded[p][i] \in Generation \/ (i = 3 /\ loaded[p][i] = Empty)
         /\ pc[p] \in Serving <=> Len(loaded[p]) = 7
    /\ listener \in [Servers -> [Ports -> {"starting", "open", "failed", "closed"}]]
    /\ busy \in [Servers -> SUBSET Ports]
    /\ signalled \subseteq Servers /\ expired \subseteq Servers
    /\ cut \in BOOLEAN

Starting == [port \in Ports |-> "starting"]

Init ==
    /\ FilesInit
    /\ loaded = [p \in Servers |-> <<>>]
    /\ listener = [p \in Servers |-> Starting]
    /\ busy = [p \in Servers |-> {}]
    /\ signalled = {}
    /\ expired = {}
    /\ cut = FALSE

\* The process is gone, and everything it held in memory.
Ends(p) ==
    /\ Exit(p)
    /\ loaded' = [loaded EXCEPT ![p] = <<>>]
    /\ listener' = [listener EXCEPT ![p] = Starting]
    /\ busy' = [busy EXCEPT ![p] = {}]
    /\ signalled' = signalled \ {p}
    /\ expired' = expired \ {p}

-----------------------------------------------------------------------------

LoadAnything(p) ==  \* mutant: what was read is not looked at
    /\ pc[p] = "load"
    /\ loaded' = [loaded EXCEPT ![p] = Append(@, files[ReadOrder[Len(@) + 1]])]
    /\ Goto(p, IF Len(loaded'[p]) = 7 THEN "serve" ELSE "load", 0, Nil)
    /\ UNCHANGED <<files, debugCA, generations, finished, overlapped,
                   listener, busy, signalled, expired, cut>>

\* The key just read must be that of the certificate read before it.
LoadX509KeyPair(p, content) == content = loaded[p][Len(loaded[p])]

\* The next file is read, and must parse, save the third: the PEM that goes
\* out with every certificate is sent as it is, even empty.  LoadCA does not
\* compare key and certificate.
Load(p) ==
    LET n == Len(loaded[p]) + 1
        content == files[ReadOrder[n]]
        ok == /\ content # Nil
              /\ n # 3 => content \in Generation
              /\ n \in {5, 7} => LoadX509KeyPair(p, content)
    IN  /\ pc[p] = "load"
        /\ IF ok
           THEN /\ loaded' = [loaded EXCEPT ![p] = Append(@, content)]
                /\ Goto(p, IF n = 7 THEN "serve" ELSE "load", 0, Nil)
                /\ UNCHANGED <<listener, busy, signalled, expired>>
           ELSE Ends(p)
        /\ UNCHANGED <<files, debugCA, generations, finished, overlapped, cut>>

SetListener(p, port, state) ==
    /\ listener' = [listener EXCEPT ![p][port] = state]
    /\ UNCHANGED <<filesVars, loaded, busy, signalled, expired, cut>>

\* Main has called Shutdown on the port's server.
Shut(p, port) == pc[p] = "mtls" \/ pc[p] = port

ListenLate(p, port) ==  \* mutant: a goroutine late for Shutdown listens
    /\ pc[p] \in Serving /\ listener[p][port] = "starting"
    /\ \E state \in {"open", "failed"} : SetListener(p, port, state)

\* ListenAndServeTLS: the port may be in use, and after Shutdown it returns
\* ErrServerClosed.  Any other error goes to errChan, which has room for both.
Listen(p, port) ==
    /\ pc[p] \in Serving /\ listener[p][port] = "starting"
    /\ \E state \in IF Shut(p, port) THEN {"closed"} ELSE {"open", "failed"} :
         SetListener(p, port, state)

ListenerFails(p, port) ==
    /\ listener[p][port] = "open"
    /\ SetListener(p, port, "failed")

ReceiveRequest(p, port) ==
    /\ listener[p][port] = "open"
    /\ busy' = [busy EXCEPT ![p] = @ \cup {port}]
    /\ UNCHANGED <<filesVars, loaded, listener, signalled, expired, cut>>

AnswerRequest(p, port) ==
    /\ port \in busy[p]
    /\ busy' = [busy EXCEPT ![p] = @ \ {port}]
    /\ UNCHANGED <<filesVars, loaded, listener, signalled, expired, cut>>

Signal(p) ==
    /\ pc[p] \in Serving
    /\ signalled' = signalled \cup {p}
    /\ UNCHANGED <<filesVars, loaded, listener, busy, expired, cut>>

-----------------------------------------------------------------------------

\* Shutdown closes the listener first, then waits.
StartShutdown(p, port) ==
    /\ Goto(p, port, 0, Nil)
    /\ listener' = [listener EXCEPT ![p][port] = IF @ = "open" THEN "closed" ELSE @]
    /\ UNCHANGED <<files, debugCA, generations, finished, overlapped,
                   loaded, busy, signalled, expired, cut>>

SelectSignalOnly(p) ==  \* mutant: errChan is not read
    /\ pc[p] = "serve"
    /\ p \in signalled
    /\ StartShutdown(p, "enroll")

Select(p) ==
    /\ pc[p] = "serve"
    /\ p \in signalled \/ \E port \in Ports : listener[p][port] = "failed"
    /\ StartShutdown(p, "enroll")

\* Shutdown returns once its server is idle, or at the deadline.
Drained(p, port) == port \notin busy[p] \/ p \in expired

EnrollShutdownReturns(p) ==
    /\ pc[p] = "enroll" /\ Drained(p, "enroll")
    /\ StartShutdown(p, "mtls")

MtlsShutdownReturns(p) ==
    /\ pc[p] = "mtls" /\ Drained(p, "mtls")
    /\ Ends(p)
    /\ cut' = (cut \/ (busy[p] # {} /\ p \notin expired))
    /\ UNCHANGED <<files, debugCA, generations, finished, overlapped>>

DeadlinePasses(p) ==
    /\ pc[p] \in {"enroll", "mtls"} /\ p \notin expired
    /\ expired' = expired \cup {p}
    /\ UNCHANGED <<filesVars, loaded, listener, busy, signalled, cut>>

\* Either program is killed, or fails to write: between any two steps.
Kill(p) ==
    /\ pc[p] # "idle"
    /\ IF p \in Servers
       THEN Ends(p)
       ELSE Exit(p) /\ UNCHANGED <<loaded, listener, busy, signalled, expired>>
    /\ UNCHANGED <<files, debugCA, generations, finished, overlapped, cut>>

MainStep(p) ==
    \/ Load(p)
    \/ Select(p)
    \/ EnrollShutdownReturns(p)
    \/ MtlsShutdownReturns(p)

ListenerStep(p, port) ==
    \/ Listen(p, port)
    \/ ListenerFails(p, port)
    \/ ReceiveRequest(p, port)
    \/ AnswerRequest(p, port)

SystemNext ==
    \/ \E p \in Processes : BootstrapStep(p) /\ UNCHANGED serverVars
    \/ \E f \in Files : OperatorDeletes(f) /\ UNCHANGED serverVars
    \/ \E p \in Servers : MainStep(p) \/ Signal(p) \/ DeadlinePasses(p)
    \/ \E p \in Servers, port \in Ports : ListenerStep(p, port)
    \/ \E p \in Processes : Kill(p)

\* The main goroutine runs, and so does its timer.  Requests may take for
\* ever.
Spec ==
    /\ Init /\ [][SystemNext]_vars
    /\ \A p \in Servers : WF_vars(MainStep(p)) /\ WF_vars(DeadlinePasses(p))

-----------------------------------------------------------------------------

\* bootstrap.go:35-40, main.go:36-49, 77-115.  Whatever starts and kills came
\* before, a server that serves does so with CA certificate, CA key and TLS
\* pairs of one bootstrap, unless processes have worked on the directory at
\* the same time.
ServesOneGeneration ==
    \A p \in Servers :
        pc[p] \in Serving /\ ~overlapped => loaded[p] = [i \in 1..7 |-> loaded[p][1]]

\* bootstrap.go:37-40.  A bootstrap never overwrites a file, not even one that
\* a killed bootstrap has left empty: what exists goes only when certgen
\* -force or the operator removes it.  Two bootstraps that both found the
\* directory empty are the exception.
ExistingFilesAreKept ==
    [][\A f \in Files :
          files[f] # Nil /\ files'[f] # files[f] =>
              \/ files'[f] = Nil
              \/ overlapped'
              \/ files[f] = Empty /\ \E p \in Processes :
                    /\ pc[p] = "write" /\ at[p] % 2 = 1
                    /\ f = WriteOrder[at[p] \div 2 + 1]]_vars

\* certgen/main.go:63, 73-92.  Once certgen has reported success, the debug
\* build trusts the CA in the directory for as long as it is that one, with
\* servers starting at any time (but one certgen: two may overtake each
\* other).
DebugCAIsCurrent ==
    files["ca.crt"] \in finished => debugCA = files["ca.crt"]

\* main.go:169-177.  A graceful shutdown cuts a request only at its deadline,
\* on either port, even when a listener starts late.
NoRequestCutEarly == ~cut

\* main.go:140-180.  A server that is told to stop, or that has lost one of
\* its listeners, ends: it neither hangs on a request nor serves by half.
StopsWhenToldOrBroken ==
    \A p \in Servers :
        p \in signalled \/ (\E port \in Ports : listener[p][port] = "failed")
            ~> pc[p] = "idle"
=============================================================================
