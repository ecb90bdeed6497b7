---------------------------- MODULE ImageReport ----------------------------
(***************************************************************************)
(* cio analyze, the container image optimizer: cmd/cio and its internal    *)
(* packages analyze, trivy and dockerclient.                               *)
(*                                                                         *)
(* The history of an image is read from Docker and judged layer by layer,  *)
(* a scanner is run, the report is written, and the exit code says whether *)
(* something in it reaches the level of --fail-on.  A flag that one step   *)
(* reads is chosen at that step.  Docker and the scanner are external.     *)
(***************************************************************************)
EXTENDS Integers, FiniteSets, Sequences

CONSTANTS History,       \* what ImageHistory may return: sequences of [size, command], where a
                         \* command is the set of the phrases in it that a rule looks for
          Vulnerable,    \* what a scan may find: the level that the scanner names for each
                         \* vulnerability, in the order of their identifiers
          MinLayerSize, HugeLayerSize,  \* 0 turns a threshold off
          TopFlag,       \* values of --top
          MultiCopyMin, MaxTop  \* multiCopyMinCommands and maxTopVulnerabilities: 3 and 10

ASSUME ImageAssumption == /\ MinLayerSize \in Nat /\ HugeLayerSize \in Nat
                          /\ TopFlag \subseteq Int /\ MaxTop \in Nat \ {0}
                          /\ History \subseteq Seq([size : Nat, command : SUBSET STRING])
                          /\ Vulnerable \subseteq Seq(STRING)

VARIABLES cio,       \* where the command is, its exit code and the level of --fail-on
          layers,    \* the history that was read
          findings,  \* report.Findings
          topLayers, \* report.TopLayers, as indices, and the flag it was made with
          found,     \* history: what the scanner did, and the vulnerabilities it found
          scan,      \* report.Scan: how it went, TotalVulnerabilities, BySeverity, and Top as
                     \* places in what the scanner wrote
          reportFile \* the file of --output: "old" (untouched), "partial" or "whole"

imageVars == <<cio, layers, findings, topLayers, found, scan, reportFile>>

\* severityRanks
Severity == {"unknown", "info", "low", "medium", "high", "critical"}
Rank(s) == CASE s = "critical" -> 4 [] s = "high" -> 3 [] s = "medium" -> 2
             [] s = "low" -> 1 [] s = "info" -> 0 [] OTHER -> -1

\* AtLeast; no threshold is reached by nothing.
AtLeast(s, threshold) == threshold # "none" /\ Rank(s) >= Rank(threshold)

\* normalizeSeverity: what the report has no name for is unknown.
Normalize(level) == IF level \in Severity THEN level ELSE "unknown"
-----------------------------------------------------------------------------
\* The rules: a finding is a rule and its severity.
Finds(condition, rule, severity) ==
  IF condition THEN {[rule |-> rule, severity |-> severity]} ELSE {}
Has(command, phrases) == command \cap phrases # {}

SizeFindings(size) ==
  LET huge == HugeLayerSize > 0 /\ size >= HugeLayerSize
      large == MinLayerSize > 0 /\ size >= MinLayerSize
  IN  Finds(huge, "layer-too-large", "high") \cup Finds(large /\ ~huge, "layer-large", "medium")

\* A phrase stands for all the spellings its rule accepts.
PackageFindings(c) ==
  UNION {Finds("apt-install" \in c /\ ~Has(c, {"apt-clean"}), "apt-lists-not-cleaned", "medium"),
         Finds("apt-install" \in c /\ ~Has(c, {"no-recommends"}), "apt-no-install-recommends",
               "low"),
         Finds("apt-upgrade" \in c, "apt-upgrade", "medium"),
         Finds("apk-add" \in c /\ ~Has(c, {"no-cache", "apk-clean"}), "apk-cache-not-cleaned",
               "low"),
         Finds("yum-install" \in c /\ ~Has(c, {"yum-clean"}), "yum-cache-not-cleaned", "low"),
         Finds("pip-install" \in c /\ ~Has(c, {"no-cache", "pip-clean"}), "pip-cache-not-cleaned",
               "low"),
         Finds("npm-install" \in c /\ ~Has(c, {"no-cache", "npm-clean"}), "npm-cache-not-cleaned",
               "info")}

SecurityFindings(c) ==
  UNION {Finds("curl" \in c /\ ~Has(c, {"rm"}), "downloaded-artifact-kept", "info"),
         Finds("curl-to-shell" \in c, "curl-pipe-shell", "medium"),
         Finds("env" \in c /\ Has(c, {"secret"}), "secret-in-layer", "high")}

BuildFindings(c) == Finds("build-tool" \in c, "build-toolchain-in-final-image", "medium")

\* AnalyzeLayers: a layer without a command is not looked at, whatever its size.
Judged(h) == {i \in DOMAIN h : h[i].command \notin {{}, {"<missing>"}}}
AnalyzeLayers(h) ==
  LET copies == {i \in Judged(h) : "copy" \in h[i].command}
  IN  (UNION {SizeFindings(h[i].size) \cup PackageFindings(h[i].command)
              \cup SecurityFindings(h[i].command) \cup BuildFindings(h[i].command)
                : i \in Judged(h)})
      \cup Finds(Cardinality(copies) >= MultiCopyMin, "many-copy-layers", "info")

\* The first n of D, in the order of the pairs.
Foremost(D, order, n) == {j \in D : Cardinality({i \in D : <<i, j>> \in order}) < n}

\* TopLayers: a stable sort by falling size, of which the first n are kept.
Larger(h) == {p \in (DOMAIN h) \X (DOMAIN h) :
                \/ h[p[1]].size > h[p[2]].size
                \/ h[p[1]].size = h[p[2]].size /\ p[1] < p[2]}
TopLayers(h, n) == Foremost(DOMAIN h, Larger(h), n)
-----------------------------------------------------------------------------
NoCount == [s \in Severity |-> 0]
NoScan == [went |-> "not-run", total |-> 0, count |-> NoCount, top |-> {}]
Failed == [NoScan EXCEPT !.went = "failed"]
Steps(place) == cio' = [cio EXCEPT !.at = place]
Quits(code, failOn) == cio' = [at |-> "exited", code |-> code, failOn |-> failOn]

ImageInit ==
  /\ cio = [at |-> "flags", code |-> -1, failOn |-> "none"]
  /\ layers = <<>> /\ findings = {} /\ topLayers = [set |-> {}, n |-> 0]
  /\ found = [did |-> "nothing", vulns |-> <<>>]
  /\ scan = NoScan /\ reportFile = "old"

\* ParseSize, ParseSeverity, ValidateImageSrc, the timeout, the socket, the format.
CheckFlags ==
  /\ cio.at = "flags"
  /\ Steps("history") \/ Quits(1, "none")
  /\ UNCHANGED <<layers, findings, topLayers, found, scan, reportFile>>

ImageHistory ==
  /\ cio.at = "history"
  /\ \/ layers' \in History /\ Steps("inspect")
     \/ Quits(1, "none") /\ UNCHANGED layers
  /\ UNCHANGED <<findings, topLayers, found, scan, reportFile>>

\* ImageInspect (another image, if the tag has moved), Build, and the choice of --no-trivy.
InspectAndBuild ==
  /\ cio.at = "inspect"
  /\ \/ /\ findings' = AnalyzeLayers(layers)
        /\ \E n \in TopFlag : topLayers' = [set |-> TopLayers(layers, n), n |-> n]
        /\ Steps("scanner") \/ Steps("output")
     \/ Quits(1, "none") /\ UNCHANGED <<findings, topLayers>>
  /\ UNCHANGED <<layers, found, scan, reportFile>>

\* Scan.  "fail": neither trivy nor docker is there, the time is up, or the scanner ends with
\* another status than 0; what it may have written by then, as under --exit-code, is thrown
\* away.  Else it has written its report, or, under another --format, something else.
RunScanner ==
  /\ cio.at = "scanner"
  /\ found' \in [did : {"fail", "write-nothing", "write-no-json", "write-other-json", "report"},
                 vulns : Vulnerable]
  /\ Steps("parse")
  /\ UNCHANGED <<layers, findings, topLayers, scan, reportFile>>

\* Parse: each vulnerability counts for its level; Top keeps the MaxTop worst, those of one
\* level by their identifiers.
Worse(vulns) ==
  LET rank(i) == Rank(Normalize(vulns[i]))
  IN  {p \in (DOMAIN vulns) \X (DOMAIN vulns) :
         rank(p[1]) > rank(p[2]) \/ (rank(p[1]) = rank(p[2]) /\ p[1] < p[2])}
Summary(vulns) ==
  [went |-> "ok", total |-> Len(vulns),
   count |-> [s \in Severity |-> Cardinality({i \in DOMAIN vulns : Normalize(vulns[i]) = s})],
   top |-> Foremost(DOMAIN vulns, Worse(vulns), MaxTop)]

\* What Unmarshal takes: of any other object, and of null, it reads a report without Results.
Accepted == {"report", "write-other-json"}
Parsed == IF found.did = "report" THEN found.vulns ELSE <<>>

\* Mutant: a scanner that wrote nothing has found nothing.
ParseEmptyIsClean ==
  /\ cio.at = "parse"
  /\ scan' = IF found.did \in Accepted \cup {"write-nothing"} THEN Summary(Parsed) ELSE Failed
  /\ Steps("output")
  /\ UNCHANGED <<layers, findings, topLayers, found, reportFile>>

\* Parse, and failedScan: a failure becomes a part of the report and is no error.
ParseScan ==
  /\ cio.at = "parse"
  /\ scan' = IF found.did \in Accepted THEN Summary(Parsed) ELSE Failed
  /\ Steps("output")
  /\ UNCHANGED <<layers, findings, topLayers, found, reportFile>>

\* openReportFile empties the file of an earlier report; without --output there is none.
OpenReportFile ==
  /\ cio.at = "output"
  /\ \/ Steps("write") /\ reportFile' \in {"old", "partial"}
     \/ Quits(1, "none") /\ UNCHANGED reportFile
  /\ UNCHANGED <<layers, findings, topLayers, found, scan>>

WriteReport ==
  /\ cio.at = "write"
  /\ \/ Steps("threshold") /\ reportFile' = IF reportFile = "partial" THEN "whole" ELSE reportFile
     \/ Quits(1, "none") /\ UNCHANGED reportFile
  /\ UNCHANGED <<layers, findings, topLayers, found, scan>>

\* Mutant: without a scan nothing is compared.
ExceedsAfterScan(failOn) ==
  /\ scan.went # "not-run"
  /\ \/ \E f \in findings : AtLeast(f.severity, failOn)
     \/ \E s \in Severity : scan.count[s] > 0 /\ AtLeast(s, failOn)

\* exceedsThreshold goes by the counts, not by Top; misconfigurations have no level.
ExceedsThreshold(failOn) ==
  \/ \E f \in findings : AtLeast(f.severity, failOn)
  \/ \E s \in Severity : scan.count[s] > 0 /\ AtLeast(s, failOn)

\* ParseSeverity has refused "unknown"; "none" is no threshold.
Compare ==
  /\ cio.at = "threshold"
  /\ \E failOn \in (Severity \ {"unknown"}) \cup {"none"} :
       Quits(IF ExceedsThreshold(failOn) THEN 1 ELSE 0, failOn)
  /\ UNCHANGED <<layers, findings, topLayers, found, scan, reportFile>>

ImageNext == \/ CheckFlags \/ ImageHistory \/ InspectAndBuild \/ RunScanner \/ ParseScan
             \/ OpenReportFile \/ WriteReport \/ Compare

ImageSpec == ImageInit /\ [][ImageNext]_imageVars
-----------------------------------------------------------------------------
ImageTypeOK ==
  /\ cio.at \in {"flags", "history", "inspect", "scanner", "parse", "output", "write",
                 "threshold", "exited"}
  /\ cio.code \in {-1, 0, 1} /\ (cio.code = -1 <=> cio.at # "exited")
  /\ layers \in History \cup {<<>>}
  /\ \A f \in findings : f.severity \in Severity
  /\ topLayers.set \subseteq DOMAIN layers
  /\ scan \in [went : {"not-run", "failed", "ok"}, total : Nat, count : [Severity -> Nat],
               top : SUBSET (DOMAIN Parsed)]
  /\ reportFile \in {"old", "partial", "whole"}

Worthy(level, failOn) == Normalize(level) # "unknown" /\ Rank(Normalize(level)) >= Rank(failOn)

\* What a pipeline goes by (README.md:36 and 117): a run under a threshold that a layer, its
\* command or the report of the scanner reaches ends with code 1, however much of it is not
\* shown; and code 1 means that one of them does, or that the scan has failed.  Of a scan that
\* failed the property asks nothing: the code says 0 then, as if there were no threshold, where
\* README.md:446-448 makes an exception of --fail-on.
ThresholdIsTrue ==
  LET reached ==
        \/ \E i \in Judged(layers) : HugeLayerSize > 0 /\ layers[i].size >= HugeLayerSize
                                     /\ Rank("high") >= Rank(cio.failOn)
        \/ found.did = "report" /\ \E i \in DOMAIN found.vulns : Worthy(found.vulns[i], cio.failOn)
        \/ \E f \in findings : f.rule # "layer-too-large" /\ Rank(f.severity) >= Rank(cio.failOn)
  IN  (cio.at = "exited" /\ cio.failOn # "none") =>
        /\ reached => cio.code = 1
        /\ cio.code = 1 => reached \/ scan.went = "failed"

\* What the report says.  A scan is shown as good only if the scanner ended well and wrote JSON;
\* of a report of trivy's own format all is counted, and what is shown of it is the worst, as
\* the layers shown are the largest.  JSON of another format is excepted: it is shown as a scan
\* that found nothing.  An earlier report is lost only to a new one, and a run that ends well
\* leaves no half of one.
ReportIsTrue ==
  LET shown == topLayers.set
      level(i) == Rank(Normalize(found.vulns[i]))
      count == scan.count
  IN
  /\ cio.at \in {"output", "write", "threshold"} => (scan.went = "ok" <=> found.did \in Accepted)
  /\ (scan.went = "ok" /\ found.did = "report") =>
       /\ scan.total = Len(found.vulns)
       /\ scan.total = count["critical"] + count["high"] + count["medium"] + count["low"]
                        + count["info"] + count["unknown"]
       /\ scan.top = {} => scan.total = 0
       /\ \A i \in scan.top, j \in DOMAIN found.vulns \ scan.top : level(i) >= level(j)
  /\ \A i \in shown, j \in DOMAIN layers \ shown : layers[i].size >= layers[j].size
  /\ reportFile # "old" => cio.at \in {"write", "threshold", "exited"}
  /\ (cio.at = "exited" /\ reportFile = "partial") => cio.code = 1
=============================================================================
