----------------------------- MODULE TrustStore -----------------------------
(***************************************************************************)
(* Trust on first use: the target's certificate and the controllers' store *)
(* of fingerprints, over the starts, crashes and overlaps of both.         *)
(*                                                                         *)
(* A target reads its certificate from two files and, when that fails for  *)
(* any reason, generates one and writes them (LoadOrGenerateCert in        *)
(* internal/tlsutil/tlsutil.go), before it listens (main in                *)
(* cmd/target/main.go).  A controller reads known_hosts.json, compares the *)
(* certificate that it is shown with the pin in it, and without one asks   *)
(* its user and rewrites the file (KnownHosts in tlsutil.go, dialAndVerify *)
(* in cmd/controller/main.go).  All files are rewritten in place.          *)
(*                                                                         *)
(* A certificate is named after the start that generated it; its           *)
(* fingerprint is as good as itself.                                       *)
(*                                                                         *)
(* Names that Session has too begin with "Trust" here, so that             *)
(* SessionProofs can extend both modules.                                  *)
(***************************************************************************)
EXTENDS Integers

CONSTANTS
  Starts,      \* starts of the target, on one data directory
  Runs,        \* runs of controllers, on one known_hosts.json
  Here, There, \* the target's address, and that of another target ...
  Other,       \* ... whose certificate stays the same
  Absent,      \* no file, or no pin
  Torn         \* a file that was only truncated, or written in part

Addrs == {Here, There}
Prints == Starts \cup {Other}
Pins == [Addrs -> Prints \cup {Absent}]

ASSUME NamesAssumption ==
  /\ Here # There
  /\ Other \notin Starts
  /\ {Absent, Torn} \cap Prints = {} /\ Absent # Torn
  /\ Torn \notin Pins

VARIABLES
  cert, key,  \* the target's files
  tpc,        \* where each start of the target is
  pair,       \* the certificate that it has read or uses
  known,      \* known_hosts.json: the pins, none also when empty, or Torn
  cpc,        \* where each run of the controller is
  addr,       \* where it connects to
  pins,       \* what it has read, its KnownHosts
  got,        \* the fingerprint it asks about
  overlap,    \* history: a start generated while another read or wrote
  unreadable, \* history: a start could not read files that were whole
  stale,      \* history: runs whose KnownHosts is older than the file
  raced,      \* history: one of them rewrote the file
  cutShort,   \* history: a rewriting of the file was not completed
  trusted     \* history: the pins that were stored

target == <<cert, key, tpc, pair, overlap, unreadable>>
stores == <<known, cpc, addr, pins, got, stale, raced, cutShort, trusted>>
trustVars == <<target, stores>>

NoPins == [a \in Addrs |-> Absent]

Loading == {"readCert", "readKey"}
Storing == {"certify", "writeCert", "storeKey", "writeKey"}

TrustTypeOK ==
  /\ {cert, key} \subseteq Starts \cup {Absent, Torn}
  /\ tpc \in [Starts -> {"idle", "listen", "serving", "gone"} \cup Loading \cup Storing]
  /\ pair \in [Starts -> Starts \cup {Absent, Torn}]
  /\ \A t \in Starts : tpc[t] \in {"listen", "serving"} => pair[t] \in Starts
  /\ known \in Pins \cup {Torn}
  /\ cpc \in [Runs -> {"idle", "dialling", "asking", "writing", "alarmed", "done"}]
  /\ addr \in [Runs -> Addrs]
  /\ pins \in [Runs -> Pins]
  /\ got \in [Runs -> Prints \cup {Absent}]
  /\ {overlap, unreadable, raced, cutShort} \subseteq BOOLEAN
  /\ stale \subseteq Runs
  /\ trusted \in Pins

TrustInit ==
  /\ cert = Absent /\ key = Absent
  /\ tpc = [t \in Starts |-> "idle"]
  /\ pair = [t \in Starts |-> Absent]
  /\ known = NoPins
  /\ cpc = [c \in Runs |-> "idle"]
  /\ addr = [c \in Runs |-> Here]
  /\ pins = [c \in Runs |-> NoPins]
  /\ got = [c \in Runs |-> Absent]
  /\ overlap = FALSE /\ unreadable = FALSE
  /\ stale = {} /\ raced = FALSE /\ cutShort = FALSE
  /\ trusted = NoPins

----------------------------------------------------------------------------
\* The target.

At(states) == {t \in Starts : tpc[t] \in states}

\* Start t goes on to state.
Goto(t, state) ==
  /\ tpc' = [tpc EXCEPT ![t] = state]
  /\ overlap' = (overlap \/ \E u \in At(Storing)', v \in At(Loading \cup Storing)' : u # v)
  /\ UNCHANGED stores

StartTarget(t) ==
  /\ tpc[t] = "idle"
  /\ Goto(t, "readCert")
  /\ UNCHANGED <<cert, key, pair, unreadable>>

ReadCert(t) ==
  /\ tpc[t] = "readCert"
  /\ pair' = [pair EXCEPT ![t] = cert]
  /\ Goto(t, "readKey")
  /\ UNCHANGED <<cert, key, unreadable>>

\* The files make a pair.
ReadKey(t) ==
  /\ tpc[t] = "readKey"
  /\ pair[t] \in Starts /\ key = pair[t]
  /\ Goto(t, "listen")
  /\ UNCHANGED <<cert, key, pair, unreadable>>

\* Mutant of Generate: the files are not written.
GenerateUnstored(t) ==
  /\ tpc[t] = "readKey"
  /\ unreadable' = (unreadable \/ (pair[t] \in Starts /\ key = pair[t]))
  /\ pair' = [pair EXCEPT ![t] = t]
  /\ Goto(t, "listen")
  /\ UNCHANGED <<cert, key>>

\* They do not, or one of them could not be read.
Generate(t) ==
  /\ tpc[t] = "readKey"
  /\ unreadable' = (unreadable \/ (pair[t] \in Starts /\ key = pair[t]))
  /\ pair' = [pair EXCEPT ![t] = t]
  /\ Goto(t, "certify")
  /\ UNCHANGED <<cert, key>>

\* os.WriteFile truncates the file and then writes to it.
TruncateCert(t) ==
  /\ tpc[t] = "certify"
  /\ cert' = Torn
  /\ Goto(t, "writeCert")
  /\ UNCHANGED <<key, pair, unreadable>>

WriteCert(t) ==
  /\ tpc[t] = "writeCert"
  /\ cert' = t
  /\ Goto(t, "storeKey")
  /\ UNCHANGED <<key, pair, unreadable>>

TruncateKey(t) ==
  /\ tpc[t] = "storeKey"
  /\ key' = Torn
  /\ Goto(t, "writeKey")
  /\ UNCHANGED <<cert, pair, unreadable>>

WriteKey(t) ==
  /\ tpc[t] = "writeKey"
  /\ key' = t
  /\ Goto(t, "listen")
  /\ UNCHANGED <<cert, pair, unreadable>>

\* The port is free for one of them.
Listen(t) ==
  /\ tpc[t] = "listen"
  /\ Goto(t, IF At({"serving"}) = {} THEN "serving" ELSE "gone")
  /\ UNCHANGED <<cert, key, pair, unreadable>>

\* It ends, fails to write, or is killed.
Die(t) ==
  /\ tpc[t] \notin {"idle", "gone"}
  /\ Goto(t, "gone")
  /\ UNCHANGED <<cert, key, pair, unreadable>>

----------------------------------------------------------------------------
\* The controllers.

Move(c, state) ==
  /\ cpc' = [cpc EXCEPT ![c] = state]
  /\ UNCHANGED target

\* OpenKnownHosts, which makes an empty map of a missing or an empty file; one
\* that does not parse ends the program.
OpenKnownHosts(c, a) ==
  /\ cpc[c] = "idle"
  /\ addr' = [addr EXCEPT ![c] = a]
  /\ \/ /\ known # Torn
        /\ pins' = [pins EXCEPT ![c] = known]
        /\ Move(c, "dialling")
     \/ known = Torn /\ Move(c, "done") /\ UNCHANGED pins
  /\ stale' = IF \E d \in Runs : cpc[d] = "writing" THEN stale \cup {c} ELSE stale
  /\ UNCHANGED <<known, got, raced, cutShort, trusted>>

\* The certificates that a connection to a may be shown.
Shown(a) == IF a = Here THEN {pair[t] : t \in At({"serving"})} ELSE {Other}

\* VerifyConnection: a pin decides, ...
Recognise(c) ==
  /\ cpc[c] = "dialling"
  /\ pins[c][addr[c]] # Absent
  /\ \E print \in Shown(addr[c]) :
       Move(c, IF print = pins[c][addr[c]] THEN "done" ELSE "alarmed")
  /\ UNCHANGED <<known, addr, pins, got, stale, raced, cutShort, trusted>>

\* ... and without one -fingerprint, -yes or the user.
Ask(c) ==
  /\ cpc[c] = "dialling"
  /\ pins[c][addr[c]] = Absent
  /\ got' \in {[got EXCEPT ![c] = print] : print \in Shown(addr[c])}
  /\ Move(c, "asking")
  /\ UNCHANGED <<known, addr, pins, stale, raced, cutShort, trusted>>

\* Mutant of TrustPin: the store forgets the other addresses.
TrustAlone(c) ==
  /\ cpc[c] = "asking"
  /\ pins' = [pins EXCEPT ![c] = [NoPins EXCEPT ![addr[c]] = got[c]]]
  /\ known' = NoPins
  /\ Move(c, "writing")
  /\ UNCHANGED <<addr, got, stale, raced, cutShort, trusted>>

\* KnownHosts.Trust changes the map, truncates the file ...
TrustPin(c) ==
  /\ cpc[c] = "asking"
  /\ pins' = [pins EXCEPT ![c][addr[c]] = got[c]]
  /\ known' = NoPins
  /\ Move(c, "writing")
  /\ UNCHANGED <<addr, got, stale, raced, cutShort, trusted>>

\* ... and writes it.
Written(c) ==
  /\ cpc[c] = "writing"
  /\ known' = pins[c]
  /\ trusted' = [trusted EXCEPT ![addr[c]] = got[c]]
  /\ raced' = (raced \/ c \in stale)
  /\ stale' = stale \cup {d \in Runs \ {c} : cpc[d] # "idle"}
  /\ Move(c, "done")
  /\ UNCHANGED <<addr, pins, got, cutShort>>

\* The disk is full, or the run is killed, while it rewrites the file.
CutShort(c) ==
  /\ cpc[c] = "writing"
  /\ known' \in {NoPins, Torn}
  /\ cutShort' = TRUE
  /\ Move(c, "done")
  /\ UNCHANGED <<addr, pins, got, stale, raced, trusted>>

\* It is refused, cannot connect, or ends before it writes.
Leave(c) ==
  /\ cpc[c] \in {"dialling", "asking"}
  /\ Move(c, "done")
  /\ UNCHANGED <<known, addr, pins, got, stale, raced, cutShort, trusted>>

----------------------------------------------------------------------------

TargetStep(t) ==
  \/ StartTarget(t) \/ ReadCert(t) \/ ReadKey(t) \/ Generate(t)
  \/ TruncateCert(t) \/ WriteCert(t) \/ TruncateKey(t) \/ WriteKey(t)
  \/ Listen(t) \/ Die(t)

ControllerStep(c) ==
  \/ \E a \in Addrs : OpenKnownHosts(c, a)
  \/ Recognise(c) \/ Ask(c) \/ TrustPin(c) \/ Written(c) \/ CutShort(c) \/ Leave(c)

TrustNext == (\E t \in Starts : TargetStep(t)) \/ (\E c \in Runs : ControllerStep(c))

TrustSpec == TrustInit /\ [][TrustNext]_trustVars

----------------------------------------------------------------------------
\* A pin that was stored is still in known_hosts.json, unless a run rewrote it
\* from an older copy or did not get to the end of it.
PinsKept ==
  ~raced /\ ~cutShort /\ (\A c \in Runs : cpc[c] # "writing") =>
    known # Torn /\ \A a \in Addrs : trusted[a] # Absent => known[a] = trusted[a]

\* The warning that a target's certificate has changed (main.go:187-194) has a
\* reason: two starts that were generating one at a time, or files that could
\* not be read for a while.  A start that dies between its two files is none.
AlarmJustified ==
  (\E c \in Runs : cpc[c] = "alarmed") => overlap \/ unreadable

=============================================================================
