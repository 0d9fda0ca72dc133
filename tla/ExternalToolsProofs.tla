------------------------ MODULE ExternalToolsProofs ------------------------
(* Theorems of ExternalTools, for any installers, scans, files and places. *)
EXTENDS ExternalTools, TLAPS

Runnable(p) == Executable(yr[p])

(* What installers do: what is placed was verified, yr never goes away,    *)
(* who reports success has had no failure, and what is torn has someone to *)
(* answer for it.                                                          *)
Tools ==
  /\ opengrep \in {Absent, "whole"}
  /\ \A i \in Installer :
       /\ ipc[i] \in {"place", "copy"} => down[i] = "whole"
       /\ ipc[i] \in {"copy", "chmod"} => tool[i] = "yr" /\ yr[ToolsDir] # Absent
       /\ ipc[i] = "done" => down[i] = Absent
       /\ tool[i] = "yr" /\ ~failed[i] => opengrep = "whole"
       /\ icode[i] = 0 => tool[i] = "yr" /\ ~failed[i] /\ yr[ToolsDir] # Absent /\ ipc[i] \in {"done", "killed"}
  /\ yr[ToolsDir] # Absent /\ yr[ToolsDir].data = "part" =>
       \E i \in Installer : (fd[i] /\ ~clobbered[i]) \/ ipc[i] = "killed" \/ failed[i]
  /\ OnlyVerified

(* What scans know: a yr that was found can still be run, and a scan that  *)
(* asked for pass 3 has found one before it walks.                         *)
Knows(s) ==
  /\ spc[s] \in {"check", "new"} =>
       /\ running[s] = {} /\ runner[s] = None /\ rules[s] = None /\ unpacked[s] = None
       /\ \A f \in File : answer[s][f] = None
  /\ spc[s] = "done" => running[s] = {}
  /\ staged[s] \subseteq running[s]
  /\ runner[s] # None => Runnable(runner[s])
  /\ running[s] # {} => rules[s] = "usable" /\ runner[s] # None
  /\ told[s] # None => spc[s] = "done"
  /\ rules[s] # None => rules[s] = IF Named(s) # None THEN Named(s) ELSE unpacked[s]
  /\ \A f \in File :
       /\ answer[s][f] = "scanned" => rules[s] = "usable" /\ runner[s] # None
       /\ f \in todo[s] \/ f \in running[s] \/ answer[s][f] # None
  /\ call[s].asked =>
       /\ spc[s] = "new" => \E p \in ToSet(Places) : Runnable(p)
       /\ spc[s] \in {"new", "walk"} => call[s].flag # "empty"
       /\ spc[s] = "walk" => runner[s] # None /\ rules[s] # None
       /\ \A f \in File : answer[s][f] = "skipped" => rules[s] = "failed" \/ Overlooked(s)
Scans == \A s \in Scan : Knows(s)

IInv == TypeOK /\ Tools /\ Scans /\ ToldTheTruth

-----------------------------------------------------------------------------
(* The first place with a yr that can be run is one of the places.         *)
LEMMA LookupFinds ==
  /\ Lookup \in ToSet(Places) \cup {None}
  /\ Lookup # None => Runnable(Lookup)
  /\ (\E p \in ToSet(Places) : Runnable(p)) => Lookup # None
  <1> DEFINE here == {i \in DOMAIN Places : Executable(yr[Places[i]])}
  <1>1. DOMAIN Places = 1 .. Len(Places) /\ Len(Places) \in Nat /\ Len(Places) <= 4
    BY ConstantsAssumption
  <1>2. ToSet(Places) = {Places[i] : i \in DOMAIN Places} /\ None \notin ToSet(Places)
    BY ConstantsAssumption DEF ToSet
  <1>3. CASE here = {}
    BY <1>2, <1>3 DEF Lookup, Runnable
  <1>4. CASE here # {}
    <2>1. here \subseteq {1, 2, 3, 4}
      BY <1>1
    <2>2. \E i \in here : \A j \in here : i <= j
      BY <1>4, <2>1
    <2>3. PICK i \in here : Lookup = Places[i]
      BY <1>4, <2>2 DEF Lookup
    <2> QED
      BY <1>2, <2>3 DEF Runnable
  <1> QED
    BY <1>3, <1>4

(* The end of a tool, and of the last one the end of the installer.        *)
LEMMA NextToolDoes ==
  ASSUME TypeOK, NEW i \in Installer, NEW error \in BOOLEAN, NextTool(i, error)
  PROVE  /\ failed' = [failed EXCEPT ![i] = failed[i] \/ error]
         /\ down' = [down EXCEPT ![i] = Absent]
         /\ ipc' = [ipc EXCEPT ![i] = IF tool[i] = "opengrep" THEN "choose" ELSE "done"]
         /\ tool' = [tool EXCEPT ![i] = "yr"]
         /\ icode' = IF tool[i] = "opengrep" THEN icode ELSE [icode EXCEPT ![i] = IF failed[i] \/ error THEN 1 ELSE 0]
  BY DEF NextTool, At, TypeOK

(* What the scans know stays true while no scan moves and every yr that    *)
(* could be run still can.                                                 *)
LEMMA ScansKept ==
  ASSUME TypeOK, Scans, UNCHANGED scan, \A p \in ToSet(Places) : Runnable(p) => Runnable(p)'
  PROVE  Scans'
  <1>1. \A s \in Scan : runner[s] # None => runner[s] \in ToSet(Places)
    BY DEF TypeOK
  <1> QED
    BY <1>1 DEF Scans, Knows, scan, Runnable, Executable, Named, Overlooked

(* A scan that does not move knows what it knew.                           *)
LEMMA OthersKnow ==
  ASSUME TypeOK, Scans, NEW s \in Scan, Knows(s)', UNCHANGED yr,
         \A t \in Scan \ {s} :
           /\ spc'[t] = spc[t] /\ runner'[t] = runner[t] /\ rules'[t] = rules[t] /\ unpacked'[t] = unpacked[t]
           /\ call'[t] = call[t] /\ todo'[t] = todo[t]
           /\ running'[t] = running[t] /\ staged'[t] = staged[t] /\ answer'[t] = answer[t] /\ told'[t] = told[t]
  PROVE  Scans'
  <1>1. ASSUME NEW t \in Scan, t # s
        PROVE  Knows(t)'
    BY <1>1 DEF Scans, Knows, Runnable, Named, Overlooked
  <1> QED
    BY <1>1 DEF Scans

LEMMA TruthKept ==
  ASSUME ToldTheTruth, UNCHANGED <<call, told, answer>>
  PROVE  ToldTheTruth'
  BY DEF ToldTheTruth, Overlooked

(* The end of a tool keeps what is known of the installers, if the tool    *)
(* that ended without an error is in place.                                *)
LEMMA NextToolKeeps ==
  ASSUME TypeOK, Tools, NEW i \in Installer, NEW error \in BOOLEAN, NextTool(i, error),
         ipc[i] \notin {"done", "killed"},
         ~error => IF tool[i] = "opengrep" THEN opengrep' = "whole" ELSE yr'[ToolsDir] # Absent,
         opengrep' \in {opengrep, "whole"},
         yr[ToolsDir] # Absent => yr'[ToolsDir] # Absent,
         clobbered' = clobbered, fd' \in [Installer -> BOOLEAN],
         \A j \in Installer \ {i} : fd'[j] = fd[j],
         fd'[i] = fd[i] \/ error,
         yr'[ToolsDir] # Absent /\ yr'[ToolsDir].data = "part" =>
           yr[ToolsDir] # Absent /\ yr[ToolsDir].data = "part",
         OnlyVerified'
  PROVE  Tools'
  <1>1. /\ failed' = [failed EXCEPT ![i] = failed[i] \/ error]
        /\ down' = [down EXCEPT ![i] = Absent]
        /\ ipc' = [ipc EXCEPT ![i] = IF tool[i] = "opengrep" THEN "choose" ELSE "done"]
        /\ tool' = [tool EXCEPT ![i] = "yr"]
        /\ icode' = IF tool[i] = "opengrep" THEN icode
                    ELSE [icode EXCEPT ![i] = IF failed[i] \/ error THEN 1 ELSE 0]
    BY NextToolDoes
  <1>2. opengrep' \in {Absent, "whole"}
    BY DEF Tools
  <1>3. ASSUME NEW j \in Installer
        PROVE  /\ ipc'[j] \in {"place", "copy"} => down'[j] = "whole"
               /\ ipc'[j] \in {"copy", "chmod"} => tool'[j] = "yr" /\ yr'[ToolsDir] # Absent
               /\ ipc'[j] = "done" => down'[j] = Absent
               /\ tool'[j] = "yr" /\ ~failed'[j] => opengrep' = "whole"
               /\ icode'[j] = 0 => /\ tool'[j] = "yr" /\ ~failed'[j] /\ yr'[ToolsDir] # Absent
                                   /\ ipc'[j] \in {"done", "killed"}
    <2>1. CASE j # i
      BY <1>1, <2>1 DEF TypeOK, Tools
    <2>2. CASE j = i
      BY <1>1, <2>2 DEF TypeOK, Tools
    <2> QED
      BY <2>1, <2>2
  <1>4. yr'[ToolsDir] # Absent /\ yr'[ToolsDir].data = "part" =>
          \E j \in Installer : (fd'[j] /\ ~clobbered'[j]) \/ ipc'[j] = "killed" \/ failed'[j]
    <2>1. SUFFICES ASSUME yr'[ToolsDir] # Absent, yr'[ToolsDir].data = "part"
                   PROVE  \E j \in Installer : (fd'[j] /\ ~clobbered'[j]) \/ ipc'[j] = "killed" \/ failed'[j]
      OBVIOUS
    <2>2. PICK j \in Installer : (fd[j] /\ ~clobbered[j]) \/ ipc[j] = "killed" \/ failed[j]
      BY <2>1 DEF Tools
    <2>3. CASE j = i
      BY <1>1, <2>2, <2>3 DEF TypeOK
    <2>4. CASE j # i
      BY <1>1, <2>2, <2>4 DEF TypeOK
    <2> QED
      BY <2>3, <2>4
  <1> QED
    BY <1>2, <1>3, <1>4 DEF Tools

LEMMA NextToolTypes ==
  ASSUME TypeOK, NEW i \in Installer, NEW error \in BOOLEAN, NextTool(i, error)
  PROVE  /\ ipc' \in [Installer -> {"choose", "fetch", "hung", "verify", "place", "copy", "chmod", "done", "killed"}]
         /\ tool' \in [Installer -> {"opengrep", "yr"}]
         /\ down' \in [Installer -> {Absent, "whole", "bad"}]
         /\ failed' \in [Installer -> BOOLEAN] /\ icode' \in [Installer -> {None, 0, 1}]
  <1>1. /\ failed' = [failed EXCEPT ![i] = failed[i] \/ error]
        /\ down' = [down EXCEPT ![i] = Absent]
        /\ ipc' = [ipc EXCEPT ![i] = IF tool[i] = "opengrep" THEN "choose" ELSE "done"]
        /\ tool' = [tool EXCEPT ![i] = "yr"]
        /\ icode' = IF tool[i] = "opengrep" THEN icode
                    ELSE [icode EXCEPT ![i] = IF failed[i] \/ error THEN 1 ELSE 0]
    BY NextToolDoes
  <1>2. failed' \in [Installer -> BOOLEAN] /\ down' \in [Installer -> {Absent, "whole", "bad"}]
    BY <1>1 DEF TypeOK
  <1>3. icode' \in [Installer -> {None, 0, 1}]
    BY <1>1 DEF TypeOK
  <1>4. tool' \in [Installer -> {"opengrep", "yr"}]
    BY <1>1 DEF TypeOK
  <1>5. ipc' \in [Installer -> {"choose", "fetch", "hung", "verify", "place", "copy", "chmod", "done", "killed"}]
    BY <1>1 DEF TypeOK
  <1> QED
    BY <1>2, <1>3, <1>4, <1>5

(* Every step of an installer.                                             *)
LEMMA Installs ==
  ASSUME TypeOK, Tools, NEW i \in Installer, InstallStep(i) \/ KillInstaller(i)
  PROVE  /\ TypeOK' /\ Tools' /\ UNCHANGED scan
         /\ \A p \in ToSet(Places) : Runnable(p) => Runnable(p)'
  <1> DEFINE G == TypeOK' /\ Tools' /\ UNCHANGED scan
             K == \A p \in ToSet(Places) : Runnable(p) => Runnable(p)'
  <1>0. /\ yr[ToolsDir] \in [data : Data, exec : BOOLEAN] \cup {Absent} /\ ToolsDir \in ToSet(Places)
        /\ Absent \notin [data : Data, exec : BOOLEAN] /\ Absent \notin Data
    BY ConstantsAssumption DEF TypeOK, Data
  <1>1. CASE ChooseTool(i)
    <2>1. TypeOK' /\ UNCHANGED scan
      <3>1. UNCHANGED <<opengrep, yr, fd, clobbered, scan>>
        BY <1>1 DEF ChooseTool
      <3>2. CASE NextTool(i, FALSE)
        BY <3>1, <3>2, NextToolTypes DEF TypeOK, scan
      <3>3. CASE ipc' = [ipc EXCEPT ![i] = "fetch"] /\ UNCHANGED <<tool, down, failed, icode>>
        BY <3>1, <3>3 DEF TypeOK, scan
      <3> QED
        BY <1>1, <3>2, <3>3 DEF ChooseTool, At
    <2>2. UNCHANGED <<opengrep, yr, fd, clobbered>> /\ OnlyVerified'
      BY <1>1 DEF ChooseTool, Tools, OnlyVerified
    <2>3. CASE i \notin Forced /\ IsInstalled(tool[i])
      <3>1. NextTool(i, FALSE) /\ ipc[i] = "choose"
        BY <1>1, <2>3 DEF ChooseTool
      <3>2. IF tool[i] = "opengrep" THEN opengrep' = "whole" ELSE yr'[ToolsDir] # Absent
        BY <2>2, <2>3 DEF IsInstalled, Tools
      <3> QED
        BY <2>1, <2>2, <3>1, <3>2, NextToolKeeps DEF TypeOK, Runnable
    <2>4. CASE ~(i \notin Forced /\ IsInstalled(tool[i]))
      <3>1. ipc' = [ipc EXCEPT ![i] = "fetch"] /\ UNCHANGED <<tool, down, failed, icode>> /\ ipc[i] = "choose"
        BY <1>1, <2>4 DEF ChooseTool, At
      <3>2. Tools'
        BY <2>2, <3>1 DEF Tools, TypeOK
      <3> QED
        BY <2>1, <2>2, <3>2 DEF Runnable
    <2> QED
      BY <2>3, <2>4
  <1>2. CASE Download(i)
    <2>1. TypeOK' /\ UNCHANGED scan
      <3>1. UNCHANGED <<opengrep, yr, fd, clobbered, scan>>
        BY <1>2 DEF Download
      <3>2. CASE NextTool(i, TRUE)
        BY <3>1, <3>2, NextToolTypes DEF TypeOK, scan
      <3>3. CASE /\ \E d \in {"whole", "bad"} : down' = [down EXCEPT ![i] = d]
                 /\ ipc' = [ipc EXCEPT ![i] = "verify"] /\ UNCHANGED <<tool, failed, icode>>
        BY <3>1, <3>3 DEF TypeOK, scan
      <3>4. CASE ipc' = [ipc EXCEPT ![i] = "hung"] /\ UNCHANGED <<tool, down, failed, icode>>
        BY <3>1, <3>4 DEF TypeOK, scan
      <3> QED
        BY <1>2, <3>2, <3>3, <3>4 DEF Download, At
    <2>2. UNCHANGED <<opengrep, yr, fd, clobbered>> /\ OnlyVerified' /\ ipc[i] = "fetch"
      BY <1>2 DEF Download, Tools, OnlyVerified
    <2>3. CASE NextTool(i, TRUE)
      BY <2>1, <2>2, <2>3, NextToolKeeps DEF TypeOK, Runnable
    <2>4. CASE /\ \E d \in {"whole", "bad"} : down' = [down EXCEPT ![i] = d]
               /\ At(i, "verify") /\ UNCHANGED <<tool, failed, icode>>
      <3>1. Tools'
        BY <2>2, <2>4 DEF Tools, TypeOK, At
      <3> QED
        BY <2>1, <2>2, <3>1 DEF Runnable
    <2>5. CASE At(i, "hung") /\ UNCHANGED <<tool, down, failed, icode>>
      <3>1. Tools'
        BY <2>2, <2>5 DEF Tools, TypeOK, At
      <3> QED
        BY <2>1, <2>2, <3>1 DEF Runnable
    <2> QED
      BY <1>2, <2>3, <2>4, <2>5 DEF Download
  <1>3. CASE Verify(i)
    <2>1. TypeOK' /\ UNCHANGED scan
      BY <1>3, NextToolTypes DEF Verify, At, TypeOK, scan
    <2>2. UNCHANGED <<opengrep, yr, fd, clobbered>> /\ OnlyVerified' /\ ipc[i] = "verify"
      BY <1>3 DEF Verify, Tools, OnlyVerified
    <2>3. CASE NextTool(i, TRUE)
      BY <2>1, <2>2, <2>3, NextToolKeeps DEF TypeOK, Runnable
    <2>4. CASE down[i] = "whole" /\ At(i, "place") /\ UNCHANGED <<tool, down, failed, icode>>
      <3>1. Tools'
        BY <2>2, <2>4 DEF Tools, TypeOK, At
      <3> QED
        BY <2>1, <2>2, <3>1 DEF Runnable
    <2> QED
      BY <1>3, <2>3, <2>4 DEF Verify
  <1>4. CASE PlaceOpenGrep(i)
    <2>1. down[i] = "whole" /\ ipc[i] = "place" /\ tool[i] = "opengrep"
      BY <1>4 DEF PlaceOpenGrep, Tools
    <2>2. opengrep' \in {opengrep, "whole"} /\ UNCHANGED <<yr, fd, clobbered, scan>>
      BY <1>4, <2>1 DEF PlaceOpenGrep, scan
    <2>3. TypeOK'
      BY <1>4, <2>2, NextToolTypes DEF PlaceOpenGrep, TypeOK, scan, Data
    <2>4. OnlyVerified'
      BY <2>2 DEF OnlyVerified, Tools
    <2>5. CASE opengrep' = down[i] /\ NextTool(i, FALSE)
      BY <2>1, <2>2, <2>3, <2>4, <2>5, NextToolKeeps DEF TypeOK, Runnable
    <2>6. CASE UNCHANGED opengrep /\ NextTool(i, TRUE)
      BY <2>1, <2>2, <2>3, <2>4, <2>6, NextToolKeeps DEF TypeOK, Runnable
    <2> QED
      BY <1>4, <2>5, <2>6 DEF PlaceOpenGrep
  <1>5. CASE CreateYr(i)
    <2>1. UNCHANGED <<opengrep, scan>> /\ ipc[i] = "place" /\ tool[i] = "yr"
      BY <1>5 DEF CreateYr, scan
    <2>2. CASE NextTool(i, TRUE) /\ UNCHANGED <<yr, fd, clobbered>>
      <3>1. TypeOK' /\ OnlyVerified'
        BY <2>1, <2>2, NextToolTypes DEF TypeOK, scan, Tools, OnlyVerified
      <3> QED
        BY <2>1, <2>2, <3>1, NextToolKeeps DEF TypeOK, Runnable
    <2>3. CASE /\ yr' = [yr EXCEPT ![ToolsDir] = [data |-> "part", exec |-> Executable(yr[ToolsDir])]]
               /\ fd' = [fd EXCEPT ![i] = TRUE]
               /\ clobbered' = [j \in Installer |-> IF j = i THEN FALSE ELSE clobbered[j] \/ fd[j]]
               /\ At(i, "copy") /\ UNCHANGED <<tool, down, failed, icode>>
      <3>1. Executable(yr[ToolsDir]) \in BOOLEAN
        BY <1>0 DEF Executable
      <3>2. TypeOK'
        <4>1. yr' \in [ToSet(Places) -> [data : Data, exec : BOOLEAN] \cup {Absent}]
          BY <2>3, <3>1 DEF TypeOK, Data
        <4> QED
          BY <2>1, <2>3, <4>1 DEF TypeOK, At, scan
      <3>3. OnlyVerified' /\ yr'[ToolsDir] # Absent /\ K
        <4>1. /\ yr'[ToolsDir] = [data |-> "part", exec |-> Executable(yr[ToolsDir])]
              /\ \A p \in ToSet(Places) \ {ToolsDir} : yr'[p] = yr[p]
          BY <1>0, <2>3 DEF TypeOK
        <4>2. yr'[ToolsDir] \in [data : Data, exec : BOOLEAN] /\ yr'[ToolsDir] # Absent
          BY <1>0, <3>1, <4>1 DEF Data
        <4>3. OnlyVerified'
          BY <2>1, <4>1 DEF OnlyVerified, Tools
        <4>4. Executable(yr[ToolsDir]) => Executable(yr'[ToolsDir])
          <5>1. SUFFICES ASSUME Executable(yr[ToolsDir])
                         PROVE  Executable(yr'[ToolsDir])
            OBVIOUS
          <5>2. Executable(yr[ToolsDir]) = TRUE
            BY <3>1, <5>1
          <5>3. yr'[ToolsDir] = [data |-> "part", exec |-> TRUE]
            BY <4>1, <5>2, Zenon
          <5> QED
            BY <4>2, <5>3 DEF Executable
        <4>5. K
          BY <4>1, <4>4 DEF Runnable
        <4> QED
          BY <4>2, <4>3, <4>5
      <3>4. fd'[i] /\ ~clobbered'[i]
        BY <2>3 DEF TypeOK
      <3>5. Tools'
        BY <2>1, <2>3, <3>3, <3>4 DEF Tools, TypeOK, At
      <3> QED
        BY <2>1, <3>2, <3>3, <3>5
    <2> QED
      BY <1>5, <2>2, <2>3 DEF CreateYr
  <1>6. CASE CopyYr(i)
    <2>1. /\ UNCHANGED <<opengrep, clobbered, scan>> /\ ipc[i] = "copy" /\ fd' = [fd EXCEPT ![i] = FALSE]
          /\ down[i] = "whole" /\ tool[i] = "yr" /\ yr[ToolsDir] # Absent
      BY <1>6 DEF CopyYr, scan, Tools
    <2>2. fd' \in [Installer -> BOOLEAN]
      BY <2>1 DEF TypeOK
    <2>3. CASE NextTool(i, TRUE) /\ UNCHANGED yr
      <3>1. TypeOK' /\ OnlyVerified'
        BY <2>1, <2>2, <2>3, NextToolTypes DEF TypeOK, scan, Tools, OnlyVerified
      <3> QED
        BY <2>1, <2>2, <2>3, <3>1, NextToolKeeps DEF TypeOK, Runnable
    <2>4. CASE /\ yr' = [yr EXCEPT ![ToolsDir].data = IF clobbered[i] THEN @ ELSE down[i]]
               /\ At(i, "chmod") /\ UNCHANGED <<tool, down, failed, icode>>
      <3>1. /\ yr'[ToolsDir] \in [data : Data, exec : BOOLEAN]
            /\ yr'[ToolsDir].exec = yr[ToolsDir].exec
            /\ yr'[ToolsDir].data = IF clobbered[i] THEN yr[ToolsDir].data ELSE "whole"
            /\ \A p \in ToSet(Places) \ {ToolsDir} : yr'[p] = yr[p]
            /\ yr' \in [ToSet(Places) -> [data : Data, exec : BOOLEAN] \cup {Absent}]
        BY <1>0, <2>1, <2>4 DEF TypeOK, Data
      <3>2. TypeOK'
        BY <2>1, <2>2, <2>4, <3>1 DEF TypeOK, At, scan
      <3>3. OnlyVerified' /\ yr'[ToolsDir] # Absent /\ K
        BY <1>0, <2>1, <3>1 DEF OnlyVerified, Tools, Runnable, Executable
      <3>4. ASSUME yr'[ToolsDir].data = "part"
            PROVE  \E j \in Installer : (fd'[j] /\ ~clobbered'[j]) \/ ipc'[j] = "killed" \/ failed'[j]
        <4>1. clobbered[i] /\ yr[ToolsDir].data = "part"
          BY <3>1, <3>4
        <4>2. PICK j \in Installer : (fd[j] /\ ~clobbered[j]) \/ ipc[j] = "killed" \/ failed[j]
          BY <2>1, <4>1 DEF Tools
        <4> QED
          BY <2>1, <2>4, <4>1, <4>2 DEF TypeOK, At
      <3>5. Tools'
        BY <2>1, <2>4, <3>3, <3>4 DEF Tools, TypeOK, At
      <3> QED
        BY <2>1, <3>2, <3>3, <3>5
    <2> QED
      BY <1>6, <2>3, <2>4 DEF CopyYr
  <1>7. CASE ChmodYr(i)
    <2>1. /\ UNCHANGED <<opengrep, fd, clobbered, scan>> /\ ipc[i] = "chmod"
          /\ tool[i] = "yr" /\ yr[ToolsDir] # Absent
      BY <1>7 DEF ChmodYr, scan, Tools
    <2>2. CASE NextTool(i, TRUE) /\ UNCHANGED yr
      <3>1. TypeOK' /\ OnlyVerified'
        BY <2>1, <2>2, NextToolTypes DEF TypeOK, scan, Tools, OnlyVerified
      <3> QED
        BY <2>1, <2>2, <3>1, NextToolKeeps DEF TypeOK, Runnable
    <2>3. CASE yr' = [yr EXCEPT ![ToolsDir].exec = TRUE] /\ NextTool(i, FALSE)
      <3>1. /\ yr'[ToolsDir] \in [data : Data, exec : BOOLEAN]
            /\ yr'[ToolsDir].exec /\ yr'[ToolsDir].data = yr[ToolsDir].data
            /\ \A p \in ToSet(Places) \ {ToolsDir} : yr'[p] = yr[p]
            /\ yr' \in [ToSet(Places) -> [data : Data, exec : BOOLEAN] \cup {Absent}]
        BY <1>0, <2>1, <2>3 DEF TypeOK
      <3>2. TypeOK'
        BY <2>1, <2>3, <3>1, NextToolTypes DEF TypeOK, scan
      <3>3. OnlyVerified' /\ yr'[ToolsDir] # Absent /\ K
        BY <1>0, <2>1, <3>1 DEF OnlyVerified, Tools, Runnable, Executable
      <3> QED
        BY <2>1, <2>3, <3>1, <3>2, <3>3, NextToolKeeps DEF TypeOK
    <2> QED
      BY <1>7, <2>2, <2>3 DEF ChmodYr
  <1>8. CASE KillInstaller(i)
    <2>1. /\ ipc' = [ipc EXCEPT ![i] = "killed"] /\ fd' = [fd EXCEPT ![i] = FALSE]
          /\ UNCHANGED <<opengrep, yr, tool, down, clobbered, failed, icode, scan>>
          /\ ipc[i] \notin {"done", "killed"}
      BY <1>8 DEF KillInstaller, At, scan
    <2>2. TypeOK'
      BY <2>1 DEF TypeOK, scan
    <2>3. OnlyVerified'
      BY <2>1 DEF OnlyVerified, Tools
    <2>4. ipc'[i] = "killed"
      BY <2>1 DEF TypeOK
    <2>5. Tools'
      BY <2>1, <2>3, <2>4 DEF Tools, TypeOK
    <2> QED
      BY <2>1, <2>2, <2>5 DEF Runnable
  <1> QED
    BY <1>1, <1>2, <1>3, <1>4, <1>5, <1>6, <1>7, <1>8 DEF InstallStep

(* Every step of a scan leaves the tools alone and keeps what scans know.  *)
LEMMA ScansGoOn ==
  ASSUME TypeOK, Scans, ToldTheTruth, NEW s \in Scan, ScanStep(s)
  PROVE  TypeOK' /\ Scans' /\ ToldTheTruth' /\ UNCHANGED <<opengrep, yr, installer>>
  <1>0. /\ Knows(s) /\ None \notin {"skipped", "error", "scanned", "complete"}
        /\ None \notin {"usable", "empty", "failed"}
        /\ call[s].flag \in {None, "usable", "empty"} /\ call[s].env \in {None, "usable", "empty"}
    BY ConstantsAssumption DEF Scans, TypeOK, Call
  <1>1. CASE CheckYr(s)
    <2>1. UNCHANGED <<opengrep, yr, installer, call, runner, rules, unpacked, todo, running, staged, answer, told>>
      BY <1>1 DEF CheckYr
    <2>2. \E new \in {"new", "done"} :
            /\ spc' = [spc EXCEPT ![s] = new] /\ spc[s] = "check"
            /\ new = "new" /\ call[s].asked => Lookup # None /\ call[s].flag # "empty"
      BY <1>1 DEF CheckYr
    <2>3. scode' \in [Scan -> {None, 0, 4}]
      BY <1>1 DEF CheckYr, TypeOK
    <2>4. TypeOK'
      <3>1. spc' \in [Scan -> {"check", "new", "walk", "done"}]
        BY <2>2 DEF TypeOK
      <3> QED
        BY <2>1, <2>3, <3>1 DEF TypeOK, installer
    <2>5. Knows(s)'
      BY <1>0, <2>1, <2>2, LookupFinds DEF Knows, Runnable, TypeOK, Named, Overlooked
    <2>6. \A t \in Scan \ {s} : spc'[t] = spc[t]
      BY <2>2 DEF TypeOK
    <2> QED
      BY <2>1, <2>4, <2>5, <2>6, OthersKnow, TruthKept
  <1>2. CASE NewScanner(s)
    <2>1. /\ UNCHANGED <<opengrep, yr, installer, call, todo, running, staged, answer, told, scode>> /\ spc[s] = "new"
          /\ runner' = [runner EXCEPT ![s] = Lookup] /\ spc' = [spc EXCEPT ![s] = "walk"]
      BY <1>2 DEF NewScanner
    <2>2. PICK u \in {None, "usable", "failed"} :
            /\ unpacked' = [unpacked EXCEPT ![s] = u]
            /\ rules' = [rules EXCEPT ![s] = IF Named(s) # None THEN Named(s) ELSE u]
            /\ Named(s) = None => u # None
      <3>1. unpacked[s] = None /\ [unpacked EXCEPT ![s] = None] = unpacked
        BY <1>0, <2>1 DEF Knows, TypeOK
      <3>2. CASE Named(s) # None
        BY <1>2, <3>1, <3>2 DEF NewScanner
      <3>3. CASE Named(s) = None
        <4>1. PICK u \in {"usable", "failed"} : unpacked' = [unpacked EXCEPT ![s] = u]
          BY <1>2, <3>1, <3>3 DEF NewScanner, Unpack
        <4>2. unpacked'[s] = u
          BY <4>1 DEF TypeOK
        <4> QED
          BY <1>0, <1>2, <3>3, <4>1, <4>2 DEF NewScanner
      <3> QED
        BY <3>2, <3>3
    <2>3. Named(s) \in {None, "usable", "empty"} /\ Named(s)' = Named(s)
      BY <1>0, <2>1 DEF Named
    <2>4. TypeOK'
      BY <2>1, <2>2, <2>3, LookupFinds DEF TypeOK, installer
    <2>5. /\ spc'[s] = "walk" /\ runner'[s] = Lookup /\ unpacked'[s] = u
          /\ rules'[s] = IF Named(s) # None THEN Named(s) ELSE u
      BY <2>1, <2>2 DEF TypeOK
    <2>6. Knows(s)'
      BY <1>0, <2>1, <2>2, <2>3, <2>5, LookupFinds DEF Knows, Runnable, Overlooked
    <2>7. \A t \in Scan \ {s} :
            spc'[t] = spc[t] /\ runner'[t] = runner[t] /\ rules'[t] = rules[t] /\ unpacked'[t] = unpacked[t]
      BY <2>1, <2>2 DEF TypeOK
    <2> QED
      BY <2>1, <2>4, <2>6, <2>7, OthersKnow, TruthKept
  <1>3. CASE Announce(s)
    <2>1. /\ UNCHANGED <<opengrep, yr, installer, call, runner, rules, todo, running, staged, answer>>
          /\ spc[s] = "walk" /\ todo[s] = {} /\ running[s] = {}
          /\ spc' = [spc EXCEPT ![s] = "done"] /\ scode' = [scode EXCEPT ![s] = 0]
      BY <1>3 DEF Announce
    <2>2. PICK w \in {None, "skipped", "complete"}, u \in {None, "usable", "failed"} :
            /\ told' = [told EXCEPT ![s] = w] /\ unpacked' = [unpacked EXCEPT ![s] = u]
            /\ unpacked[s] # None => u = unpacked[s]
            /\ w # None => call[s].asked
            /\ w = "skipped" => Lookup = None \/ (call[s].env = None /\ u = "failed")
            /\ w = "complete" => call[s].env # None \/ u = "usable"
      <3>0. /\ unpacked[s] \in {None, "usable", "failed"} /\ [unpacked EXCEPT ![s] = unpacked[s]] = unpacked
            /\ told[s] = None /\ [told EXCEPT ![s] = None] = told
        BY <1>0, <2>1 DEF Knows, TypeOK
      <3>1. CASE UNCHANGED <<told, unpacked>>
        BY <1>0, <3>0, <3>1
      <3>2. CASE call[s].asked /\ Lookup = None /\ told' = [told EXCEPT ![s] = "skipped"] /\ UNCHANGED unpacked
        BY <1>0, <3>0, <3>2
      <3>3. CASE call[s].asked /\ call[s].env # None /\ told' = [told EXCEPT ![s] = "complete"] /\ UNCHANGED unpacked
        BY <1>0, <3>0, <3>3
      <3>4. CASE /\ call[s].asked /\ call[s].env = None /\ Unpack(s)
                 /\ told' = [told EXCEPT ![s] = IF unpacked'[s] = "failed" THEN "skipped" ELSE "complete"]
        <4>1. PICK u \in {"usable", "failed"} :
                unpacked' = [unpacked EXCEPT ![s] = u] /\ (unpacked[s] # None => u = unpacked[s])
          BY <1>0, <3>0, <3>4 DEF Unpack
        <4>2. unpacked'[s] = u
          BY <4>1 DEF TypeOK
        <4> QED
          BY <1>0, <3>4, <4>1, <4>2
      <3> QED
        BY <1>3, <3>1, <3>2, <3>3, <3>4 DEF Announce
    <2>3. TypeOK'
      BY <2>1, <2>2 DEF TypeOK, installer
    <2>4. /\ spc'[s] = "done" /\ told'[s] = w /\ unpacked'[s] = u
          /\ \A t \in Scan \ {s} : spc'[t] = spc[t] /\ told'[t] = told[t] /\ unpacked'[t] = unpacked[t]
      BY <2>1, <2>2 DEF TypeOK
    <2>5. Named(s)' = Named(s) /\ Overlooked(s)' = Overlooked(s)
      BY <2>1 DEF Named, Overlooked
    <2>6. rules[s] # None => rules'[s] = IF Named(s) # None THEN Named(s) ELSE u
      BY <1>0, <2>1, <2>2 DEF Knows, TypeOK
    <2>7. Knows(s)'
      BY <1>0, <2>1, <2>4, <2>5, <2>6 DEF Knows, Runnable
    <2>8. w = "skipped" /\ call[s].flag = None => \A f \in File : answer[s][f] # "scanned"
      <3>1. runner[s] # None => runner[s] \in ToSet(Places) /\ Runnable(runner[s])
        BY <1>0 DEF TypeOK, Knows
      <3>2. Lookup = None => runner[s] = None
        BY <3>1, LookupFinds
      <3>3. call[s].flag = None /\ call[s].env = None /\ u = "failed" => rules[s] # "usable"
        BY <1>0, <2>1, <2>6 DEF Named
      <3> QED
        BY <1>0, <2>2, <3>2, <3>3 DEF Knows
    <2>9. w = "complete" /\ ~Overlooked(s) => \A f \in File : answer[s][f] \in {"scanned", "error"}
      <3>1. \A f \in File : answer[s][f] \in Answers /\ answer[s][f] # None
        BY <1>0, <2>1 DEF TypeOK, Knows
      <3>2. w = "complete" => rules[s] # "failed"
        BY <1>0, <2>1, <2>2, <2>6 DEF Named, Knows
      <3> QED
        BY <1>0, <2>1, <2>2, <3>1, <3>2 DEF Knows, Answers
    <2>10. ToldTheTruth'
      BY <2>1, <2>4, <2>8, <2>9 DEF ToldTheTruth, Overlooked
    <2>11. Scans'
      BY <2>1, <2>4, <2>7, OthersKnow
    <2> QED
      BY <2>1, <2>3, <2>10, <2>11
  <1>4. ASSUME NEW f \in File, SkipFile(s, f)
        PROVE  TypeOK' /\ Scans' /\ ToldTheTruth' /\ UNCHANGED <<opengrep, yr, installer>>
    <2>1. /\ UNCHANGED <<opengrep, yr, installer, call, spc, runner, rules, unpacked, running, staged, told, scode>>
          /\ spc[s] = "walk" /\ f \in todo[s]
          /\ todo' = [todo EXCEPT ![s] = todo[s] \ {f}]
      BY <1>4 DEF SkipFile
    <2>2. PICK a \in {"skipped", "error"} :
            /\ answer' = [answer EXCEPT ![s][f] = a]
            /\ call[s].asked /\ a = "skipped" => runner[s] = None \/ rules[s] # "usable"
      BY <1>4 DEF SkipFile, Answer
    <2>3. TypeOK'
      BY <2>1, <2>2 DEF TypeOK, Answers, installer
    <2>4. /\ answer'[s][f] = a /\ \A g \in File \ {f} : answer'[s][g] = answer[s][g]
          /\ todo'[s] = todo[s] \ {f}
      BY <2>1, <2>2 DEF TypeOK
    <2>5. \A t \in Scan \ {s} : answer'[t] = answer[t] /\ todo'[t] = todo[t]
      BY <2>1, <2>2 DEF TypeOK
    <2>6. Named(s)' = Named(s) /\ Overlooked(s)' = Overlooked(s)
      BY <2>1 DEF Named, Overlooked
    <2>7. call[s].asked /\ a = "skipped" => rules[s] = "failed" \/ Overlooked(s)
      <3>1. call[s].asked => rules[s] # None /\ runner[s] # None /\ call[s].flag # "empty"
        BY <1>0, <2>1 DEF Knows
      <3>2. rules[s] \in {None, "usable", "empty", "failed"} /\ unpacked[s] \in {None, "usable", "failed"}
        BY DEF TypeOK
      <3>3. rules[s] = "empty" => Named(s) = "empty"
        BY <1>0, <3>2 DEF Knows
      <3> QED
        BY <1>0, <2>2, <3>1, <3>2, <3>3 DEF Named, Overlooked
    <2>8. Knows(s)'
      BY <1>0, <2>1, <2>4, <2>6, <2>7 DEF Knows, Runnable
    <2>9. told[s] = None
      BY <1>0, <2>1 DEF Knows
    <2>10. ToldTheTruth'
      BY <1>0, <2>1, <2>5, <2>9 DEF ToldTheTruth, Overlooked
    <2>11. Scans'
      BY <2>1, <2>5, <2>8, OthersKnow
    <2> QED
      BY <2>1, <2>3, <2>10, <2>11
  <1>5. ASSUME NEW f \in File, RunFile(s, f)
        PROVE  TypeOK' /\ Scans' /\ ToldTheTruth' /\ UNCHANGED <<opengrep, yr, installer>>
    <2>1. /\ UNCHANGED <<opengrep, yr, installer, call, spc, runner, rules, unpacked, told, scode>>
          /\ spc[s] = "walk" /\ f \in todo[s] /\ runner[s] # None /\ rules[s] = "usable"
          /\ todo' = [todo EXCEPT ![s] = todo[s] \ {f}]
      BY <1>5 DEF RunFile
    <2>2. todo'[s] = todo[s] \ {f} /\ \A t \in Scan \ {s} : todo'[t] = todo[t]
      BY <2>1 DEF TypeOK
    <2>3. told[s] = None
      BY <1>0, <2>1 DEF Knows
    <2>4. CASE /\ running' = [running EXCEPT ![s] = @ \cup {f}] /\ UNCHANGED answer
               /\ \E files \in {{}, {f}} : staged' = [staged EXCEPT ![s] = @ \cup files]
      <3>1. /\ running'[s] = running[s] \cup {f} /\ staged'[s] \subseteq staged[s] \cup {f}
            /\ \A t \in Scan \ {s} : running'[t] = running[t] /\ staged'[t] = staged[t]
        BY <2>4 DEF TypeOK
      <3>2. TypeOK'
        BY <2>1, <2>4 DEF TypeOK, installer
      <3>3. Knows(s)'
        BY <1>0, <2>1, <2>2, <2>4, <3>1 DEF Knows, Runnable, Named, Overlooked
      <3>4. Scans'
        BY <2>1, <2>2, <2>4, <3>1, <3>3, OthersKnow
      <3> QED
        BY <2>1, <2>4, <3>2, <3>4, TruthKept
    <2>5. CASE Answer(s, f, "error") /\ UNCHANGED <<running, staged>>
      <3>1. /\ answer'[s][f] = "error" /\ \A g \in File \ {f} : answer'[s][g] = answer[s][g]
            /\ \A t \in Scan \ {s} : answer'[t] = answer[t]
        BY <2>5 DEF TypeOK, Answer
      <3>2. TypeOK'
        BY <2>1, <2>5 DEF TypeOK, Answers, Answer, installer
      <3>3. Knows(s)'
        BY <1>0, <2>1, <2>2, <2>5, <3>1 DEF Knows, Runnable, Named, Overlooked
      <3>4. Scans'
        BY <2>1, <2>2, <2>5, <3>1, <3>3, OthersKnow
      <3>5. ToldTheTruth'
        BY <1>0, <2>1, <2>3, <3>1 DEF ToldTheTruth, Overlooked
      <3> QED
        BY <2>1, <3>2, <3>4, <3>5
    <2> QED
      BY <1>5, <2>4, <2>5 DEF RunFile
  <1>6. ASSUME NEW f \in File, EndFile(s, f)
        PROVE  TypeOK' /\ Scans' /\ ToldTheTruth' /\ UNCHANGED <<opengrep, yr, installer>>
    <2>1. /\ UNCHANGED <<opengrep, yr, installer, call, spc, runner, rules, unpacked, todo, told, scode>> /\ f \in running[s]
          /\ running' = [running EXCEPT ![s] = running[s] \ {f}]
          /\ staged' = [staged EXCEPT ![s] = staged[s] \ {f}]
      BY <1>6 DEF EndFile
    <2>2. PICK a \in {"scanned", "error"} : answer' = [answer EXCEPT ![s][f] = a]
      BY <1>6 DEF EndFile, Answer
    <2>3. /\ running'[s] = running[s] \ {f} /\ staged'[s] = staged[s] \ {f}
          /\ \A t \in Scan \ {s} : running'[t] = running[t] /\ staged'[t] = staged[t] /\ answer'[t] = answer[t]
      BY <2>1, <2>2 DEF TypeOK
    <2>4. answer'[s][f] = a /\ \A g \in File \ {f} : answer'[s][g] = answer[s][g]
      BY <2>2 DEF TypeOK
    <2>5. TypeOK'
      BY <2>1, <2>2 DEF TypeOK, Answers, installer
    <2>6. Knows(s)'
      BY <1>0, <2>1, <2>3, <2>4 DEF Knows, Runnable, Named, Overlooked
    <2>7. told[s] = None
      BY <1>0, <2>1 DEF Knows
    <2>8. ToldTheTruth'
      BY <1>0, <2>1, <2>3, <2>7 DEF ToldTheTruth, Overlooked
    <2>9. Scans'
      BY <2>1, <2>3, <2>6, OthersKnow
    <2> QED
      BY <2>1, <2>5, <2>8, <2>9
  <1> QED
    BY <1>1, <1>2, <1>3, <1>4, <1>5, <1>6 DEF ScanStep

LEMMA ToolsKept ==
  ASSUME Tools, UNCHANGED <<opengrep, yr, installer>>
  PROVE  Tools'
  BY DEF Tools, OnlyVerified, installer

LEMMA Starts == Init => IInv
  <1> SUFFICES ASSUME Init PROVE IInv
    OBVIOUS
  <1>1. TypeOK
    <2>1. First \subseteq [data : Data, exec : BOOLEAN] \cup {Absent}
      <3>1. Whole \in [data : Data, exec : BOOLEAN]
        BY DEF Whole, Data
      <3>2. First \subseteq {Absent, Whole}
        BY ConstantsAssumption
      <3> QED
        BY <3>1, <3>2
    <2>2. yr \in [ToSet(Places) -> [data : Data, exec : BOOLEAN] \cup {Absent}]
      BY <2>1 DEF Init
    <2> QED
      BY <2>2 DEF Init, TypeOK, Data, Answers
  <1>2. Tools
    <2>1. \A p \in ToSet(Places) : yr[p] # Absent => yr[p].data = "whole"
      BY ConstantsAssumption DEF Init, Whole
    <2> QED
      BY <2>1, ConstantsAssumption DEF Init, Tools, OnlyVerified
  <1>3. Scans
    BY ConstantsAssumption DEF Init, Scans, Knows, Named, Overlooked
  <1>4. ToldTheTruth
    BY ConstantsAssumption DEF Init, ToldTheTruth
  <1> QED
    BY <1>1, <1>2, <1>3, <1>4 DEF IInv

LEMMA Goes == IInv /\ [Next]_vars => IInv'
  <1> SUFFICES ASSUME IInv, [Next]_vars PROVE IInv'
    OBVIOUS
  <1> USE DEF IInv
  <1>1. ASSUME NEW i \in Installer, InstallStep(i) \/ KillInstaller(i)
        PROVE  IInv'
    BY <1>1, Installs, ScansKept, TruthKept DEF scan
  <1>2. ASSUME NEW s \in Scan, ScanStep(s)
        PROVE  IInv'
    BY <1>2, ScansGoOn, ToolsKept
  <1>3. CASE UNCHANGED vars
    <2>1. TypeOK'
      BY <1>3 DEF vars, installer, scan, TypeOK
    <2> QED
      BY <1>3, <2>1, ToolsKept, ScansKept, TruthKept DEF vars, scan, Runnable
  <1> QED
    BY <1>1, <1>2, <1>3 DEF Next

(* All of it, in every reachable state.                                    *)
THEOREM Inductive == Spec => []IInv
  BY Starts, Goes, PTL DEF Spec

(* Type correctness.                                                       *)
THEOREM TypeCorrect == Spec => []TypeOK
  BY Inductive, PTL DEF IInv

(* However installers interleave, fail or die, what fails the digest is    *)
(* never where a scan could run it (verifyDigest before every placement).  *)
THEOREM NothingUnverified == Spec => []OnlyVerified
  <1>1. IInv => OnlyVerified
    BY DEF IInv, Tools
  <1> QED
    BY <1>1, Inductive, PTL

(* A scan that asked for pass 3 answers for every file, but for rules that *)
(* cannot be unpacked or are not where the environment says: a yr that a   *)
(* scan found keeps its mode while an installer writes over it, and the    *)
(* directory of the flag was looked into.                                  *)
THEOREM NoSilence == Spec => []NeverSilent
  <1>1. IInv => NeverSilent
    BY ConstantsAssumption DEF IInv, Scans, Knows, NeverSilent
  <1> QED
    BY <1>1, Inductive, PTL

(* What who asked for pass 3 is told of it is so, though it comes from     *)
(* later looks for yr and rules than those the scan worked with; excepted  *)
(* are an empty directory in the environment, called complete, and rules   *)
(* of the flag when the embedded ones cannot be unpacked.                  *)
THEOREM ToldIsTrue == Spec => []ToldTheTruth
  BY Inductive, PTL DEF IInv

(* Exit code 0 of an installer means that both tools are there, and that a *)
(* yr that is not whole has an installer to answer for it.                 *)
THEOREM SuccessIsInstalled == Spec => []SuccessMeansInstalled
  <1>1. IInv => SuccessMeansInstalled
    BY DEF IInv, Tools, SuccessMeansInstalled, BrokeOff
  <1> QED
    BY <1>1, Inductive, PTL

(* Downloads and staged copies go with what made them.                     *)
THEOREM NoLeftovers == Spec => []TempsRemoved
  <1>1. IInv => TempsRemoved
    BY DEF IInv, Tools, Scans, Knows, TempsRemoved
  <1> QED
    BY <1>1, Inductive, PTL

(* OpenGrep is a file that is only ever replaced by a whole one.           *)
THEOREM OpenGrepIsReplaced == Spec => OpenGrepReplaced
  <1>1. IInv /\ IInv' /\ [Next]_vars => [OpenGrepFile!Replace]_(IF opengrep \in {"part", "bad"} THEN Torn ELSE opengrep)
    <2> SUFFICES ASSUME IInv, IInv', [Next]_vars
                 PROVE  opengrep' = opengrep \/ OpenGrepFile!Replace
      OBVIOUS
    <2>1. opengrep' \in {opengrep, "whole"}
      <3>1. ASSUME NEW i \in Installer, PlaceOpenGrep(i)
            PROVE  opengrep' \in {opengrep, "whole"}
        BY <3>1 DEF PlaceOpenGrep, IInv, Tools
      <3> QED
        BY <3>1 DEF Next, InstallStep, KillInstaller, ScanStep, ChooseTool, Download, Verify, CreateYr, CopyYr,
                    ChmodYr, CheckYr, NewScanner, SkipFile, RunFile, EndFile, Announce, vars
    <2> QED
      BY <2>1, ConstantsAssumption DEF OpenGrepFile!Replace
  <1>2. OpenGrepFile!Init
    BY DEF OpenGrepFile!Init
  <1> QED
    BY <1>1, <1>2, Inductive, PTL DEF Spec, OpenGrepReplaced, OpenGrepFile!Spec
=============================================================================
