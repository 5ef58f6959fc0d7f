------------------------------ MODULE Plugins ------------------------------
(***************************************************************************)
(* The plugin host: calls of the engine that build a plugin-backed target,  *)
(* feature flag, router or metric source each launch the installed binary,  *)
(* shake hands with it, judge its manifest and close it when they are done  *)
(* (internal/pluginhost and its four users), while `rollops plugin install'  *)
(* and `plugin update' rewrite that binary in place (internal/cli/plugin).   *)
(* A binary is a model value that stands for its sha256.  Plugins, a         *)
(* half-written file that starts among them, answer, stay silent, exit or    *)
(* fork as they like.                                                        *)
(***************************************************************************)
EXTENDS Naturals, FiniteSets

CONSTANTS Users,       \* engine calls that use the plugin
          Binaries,    \* binaries of the plugin
          Published,   \* those the registry's index lists
          Latest,      \* the index's latest
          Signed,      \* those the index has signature material for
          Genuine,     \* those whose signature verifies
          Declares,    \* binary -> [risk, tools, needs, capable]: its manifest
          RequireSig,  \* --require-signature
          MaxInstalls, MaxBreaks

Missing == "missing"
Truncated == "truncated"

ASSUME PluginsAssumption ==
  /\ Signed \subseteq Published /\ Published \subseteq Binaries /\ Latest \in Published
  /\ Binaries \cap {Missing, Truncated} = {}   \* neither is a complete binary

VARIABLES disk,      \* the installed file
          pin,       \* the sha256 the config pins
          installer, \* the install or update in progress
          use,       \* user -> its launch: [pc, bin, group, said], said the binary
                     \* whose manifest it declared
          vetted,    \* history: binaries that passed the checks of an install
          pluginCounts

pluginVars == <<disk, pin, installer, use, vetted, pluginCounts>>

(***************************************************************************)
(* The policy.  Risk classes are ranks; an unknown class is above them all. *)
(***************************************************************************)
Unset == 0
riskRankOf == [passive |-> 1, active |-> 2, invasive |-> 3, unknown |-> 4]
Rank(c) == IF c = "" THEN Unset ELSE riskRankOf[c]
MaxRiskClass == "active"
Granted == {"confirmation"}   \* hosts, variables and confirmations the operator allowed

effectiveRisk(m) ==
  IF m.risk # "" THEN Rank(m.risk)
  ELSE CHOOSE k \in {Unset} \cup {Rank(t) : t \in m.tools} : \A t \in m.tools : Rank(t) <= k

\* Policy.Validate: risk, then confirmation, hosts, variables and paths, all of
\* which must be granted.
PolicyAdmits(m) == effectiveRisk(m) <= Rank(MaxRiskClass) /\ m.needs \subseteq Granted

NoUse == [pc |-> "idle", bin |-> Missing, group |-> {}, said |-> Missing]
NoInstall == [pc |-> "idle", check |-> "none", want |-> Missing, got |-> Missing]

PluginsInit ==
  /\ disk \in Binaries /\ pin = disk
  /\ installer = NoInstall
  /\ use = [u \in Users |-> NoUse]
  /\ vetted = {disk}
  /\ pluginCounts = [installs |-> 0, breaks |-> 0]

Becomes(u, r) == use' = [use EXCEPT ![u] = r]
At(u, pc) == use[u].pc = pc
Alive(u) == "leader" \in use[u].group
Closing(u) == [NoUse EXCEPT !.pc = "closing", !.group = use[u].group]
Host == <<disk, pin, installer, vetted, pluginCounts>>

(***************************************************************************)
(* Build: verify the pin, start, shake hands, ask for the manifest, judge.  *)
(***************************************************************************)
VerifyBinary(u) ==
  /\ At(u, "idle") /\ disk = pin
  /\ Becomes(u, [use[u] EXCEPT !.pc = "verified"])
  /\ UNCHANGED Host

\* A file that is open for writing cannot be executed.
StartProcess(u) ==
  /\ At(u, "verified")
  /\ \/ /\ installer.pc # "writing" /\ disk # Missing
        /\ Becomes(u, [pc |-> "handshake", bin |-> disk, group |-> {"leader"}, said |-> Missing])
     \/ Becomes(u, NoUse)
  /\ UNCHANGED Host

\* A line of the handshake.  Nothing hashes the file again, so a half-written
\* one that starts may give it too.
Handshake(u) ==
  /\ At(u, "handshake") /\ Alive(u)
  /\ Becomes(u, [use[u] EXCEPT !.pc = "manifest"])
  /\ UNCHANGED Host

\* Mutant of killLaunch: a silent plugin is waited for.
killLaunchWhenDead(u) ==
  /\ At(u, "handshake") /\ ~ Alive(u)
  /\ Becomes(u, NoUse)
  /\ UNCHANGED Host

\* A bad line, end of output, timeout or cancellation: the group is killed.
killLaunch(u) ==
  /\ At(u, "handshake")
  /\ Becomes(u, NoUse)
  /\ UNCHANGED Host

\* Whose manifest a running file may declare.
MayDeclare(b) == IF b = Truncated THEN Binaries ELSE {b}

AskManifest(u) ==
  /\ At(u, "manifest") /\ Alive(u)
  /\ \E b \in MayDeclare(use[u].bin) : Becomes(u, [use[u] EXCEPT !.pc = "judge", !.said = b])
  /\ UNCHANGED Host

\* GetManifest fails, or ManifestTimeout is over.
ManifestTimeout(u) ==
  /\ At(u, "manifest")
  /\ Becomes(u, Closing(u))
  /\ UNCHANGED Host

\* Mutant of Judge: the pinned manifest is judged.
JudgePinned(u) ==
  /\ At(u, "judge")
  /\ Becomes(u, IF PolicyAdmits(Declares[pin]) /\ Declares[pin].capable
                   THEN [use[u] EXCEPT !.pc = "serving"] ELSE Closing(u))
  /\ UNCHANGED Host

\* Mutant of Judge: an incapable plugin is dropped without being closed.
JudgeLeaking(u) ==
  /\ At(u, "judge")
  /\ LET m == Declares[use[u].said]
     IN  Becomes(u, IF PolicyAdmits(m) /\ m.capable THEN [use[u] EXCEPT !.pc = "serving"]
                    ELSE IF PolicyAdmits(m) THEN [use[u] EXCEPT !.pc = "idle"] ELSE Closing(u))
  /\ UNCHANGED Host

\* Policy.Validate and HasCapability on what the running process declared.
Judge(u) ==
  /\ At(u, "judge")
  /\ LET m == Declares[use[u].said]
     IN  Becomes(u, IF PolicyAdmits(m) /\ m.capable THEN [use[u] EXCEPT !.pc = "serving"] ELSE Closing(u))
  /\ UNCHANGED Host

\* The call ends; closeTarget and the deferred closes run.  Client.Invoke has no
\* timeout, so a plugin that goes silent here keeps its call.
Release(u) ==
  /\ At(u, "serving")
  /\ Becomes(u, Closing(u))
  /\ UNCHANGED Host

\* Process.Close: stdin closes, the leader leaves or is killed after three
\* seconds, then the rest of its group is killed.
CloseProcess(u) ==
  /\ At(u, "closing")
  /\ Becomes(u, NoUse)
  /\ UNCHANGED Host

\* The plugin itself: it may fork a helper, and die.
ForkHelper(u) ==
  /\ Alive(u) /\ "helper" \notin use[u].group
  /\ Becomes(u, [use[u] EXCEPT !.group = @ \cup {"helper"}])
  /\ UNCHANGED Host

LeaderDies(u) ==
  /\ Alive(u)
  /\ Becomes(u, [use[u] EXCEPT !.group = @ \ {"leader"}])
  /\ UNCHANGED Host

(***************************************************************************)
(* Install names a published version, a path or a URL; update the latest     *)
(* version of a plugin whose file the index recognises.  All fetch to a       *)
(* temporary file, check it, then truncate and rewrite the installed file,   *)
(* which the system refuses while the file is being executed.                *)
(***************************************************************************)
SignatureRule(b) == IF b \in Signed THEN b \in Genuine ELSE ~ RequireSig

Fetch(check, want) ==
  /\ installer.pc = "idle" /\ pluginCounts.installs < MaxInstalls
  /\ \E got \in Binaries : installer' = [pc |-> "fetched", check |-> check, want |-> want, got |-> got]
  /\ pluginCounts' = [pluginCounts EXCEPT !.installs = @ + 1]
  /\ UNCHANGED <<disk, pin, use, vetted>>

\* By name: the index's entry is checked for signature material before the fetch.
Want(b) == (b \in Signed \/ ~ RequireSig) /\ Fetch("index", b)

\* By path or URL: cosign where its flags are given, no pin to hold it to.
InstallFrom == \E check \in {"flags", "none"} : Fetch(check, Missing)

pluginInstall == (\E b \in Published : Want(b)) \/ InstallFrom
pluginUpdate == disk \in Published \ {Latest} /\ Want(Latest)

\* resolveAndInstall, and the switch of pluginInstall.
Passes(i) ==
  \/ i.check = "index" /\ i.got = i.want /\ SignatureRule(i.got)
  \/ i.check = "flags" /\ i.got \in Genuine
  \/ i.check = "none" /\ ~ RequireSig

VerifyFetched ==
  /\ installer.pc = "fetched"
  /\ IF Passes(installer)
       THEN /\ installer' = [installer EXCEPT !.pc = "checked"]
            /\ vetted' = vetted \cup {installer.got}
       ELSE installer' = NoInstall /\ UNCHANGED vetted
  /\ UNCHANGED <<disk, pin, use, pluginCounts>>

Executing == \E u \in Users : Alive(u)

OpenTruncating ==
  /\ installer.pc = "checked"
  /\ IF Executing THEN installer' = NoInstall /\ UNCHANGED disk
     ELSE installer' = [installer EXCEPT !.pc = "writing"] /\ disk' = Truncated
  /\ UNCHANGED <<pin, use, vetted, pluginCounts>>

\* The copy is complete, or it is cut short and nothing cleans up after it.
WriteInstalled ==
  /\ installer.pc = "writing"
  /\ \/ disk' = installer.got /\ UNCHANGED pluginCounts
     \/ /\ pluginCounts.breaks < MaxBreaks
        /\ pluginCounts' = [pluginCounts EXCEPT !.breaks = @ + 1]
        /\ UNCHANGED disk
  /\ installer' = NoInstall
  /\ UNCHANGED <<pin, use, vetted>>

\* The operator pins what the install printed.
Repin ==
  /\ disk \in Binaries /\ pin # disk
  /\ pin' = disk
  /\ UNCHANGED <<disk, installer, use, vetted, pluginCounts>>

HostStep(u) ==
  \/ VerifyBinary(u) \/ StartProcess(u) \/ Handshake(u) \/ killLaunch(u) \/ AskManifest(u) \/ ManifestTimeout(u)
  \/ Judge(u) \/ Release(u) \/ CloseProcess(u)

PluginsNext ==
  \/ \E u \in Users : HostStep(u) \/ ForkHelper(u) \/ LeaderDies(u)
  \/ pluginInstall \/ pluginUpdate \/ VerifyFetched \/ OpenTruncating \/ WriteInstalled \/ Repin

\* What the host itself gets round to: the ten seconds of a handshake and of a
\* manifest and the three of a close run out.  No plugin owes an answer.
PluginCall(u) == StartProcess(u) \/ killLaunch(u) \/ ManifestTimeout(u) \/ Judge(u) \/ CloseProcess(u)
PluginsFairness == \A u \in Users : WF_pluginVars(PluginCall(u))

PluginsSpec == PluginsInit /\ [][PluginsNext]_pluginVars /\ PluginsFairness

-----------------------------------------------------------------------------
\* No process of a plugin, a helper it forked included, outlives the call that
\* launched it, whichever way the launch ends (launch.go:89, 157, build.go:46).
NoStrayProcess == \A u \in Users : use[u].group # {} => use[u].pc \notin {"idle", "verified"}

\* Whatever serves a call was admitted by the policy for the manifest it declared
\* itself, which for a complete binary is its own, although the file may have been
\* replaced since its sha256 was compared with the pin (policy.go:107).
ServesOnlyAdmitted ==
  \A u \in Users : use[u].pc = "serving" =>
    /\ PolicyAdmits(Declares[use[u].said]) /\ Declares[use[u].said].capable
    /\ use[u].bin \in Binaries => use[u].said = use[u].bin

\* Every complete file an install leaves behind passed the checks of its source
\* before the installed one was touched: the index's pin and signature, or what the
\* flags of the operator ask for (cli/plugin.go:363, 401).
InstalledIsVetted == disk \in Binaries => disk \in vetted

\* Between an install and a call nothing serves, and no complete file lies in wait
\* to be run, that the checks of its time did not admit.
OnlyAdmittedRuns == ServesOnlyAdmitted /\ InstalledIsVetted

\* Every launch comes to serve or to an end, a silent plugin's included, and so
\* does every close: no wait of Launch, Manifest or Close is for ever
\* (launch.go:91, 173).
EveryLaunchEnds == \A u \in Users : []<>(use[u].pc \in {"idle", "serving"})

\* What the code does not give, and no run checks: that what serves is a whole file
\* (VerifyBinary hashes the path, exec opens it again, and an install may cut it
\* short in between), and that a call ends once its plugin serves it (Client.Invoke
\* has no timeout and its callers' contexts no deadline, client.go:43).
ServesWhole == \A u \in Users : use[u].pc = "serving" => use[u].bin \in Binaries
EveryCallEnds == \A u \in Users : []<>(use[u].pc = "idle")
=============================================================================
