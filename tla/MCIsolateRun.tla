---------------------------- MODULE MCIsolateRun ----------------------------
(* The exit codes and signals that the return codes of the agent give a     *)
(* meaning of their own, and one of each that they do not.                  *)
EXTENDS IsolateRun

MCExitCodes == {0, 1, 124, 125, 137}
MCSignals == {SIGKILL, 11, SIGXFSZ}

\* Every place a limit can come from, with a 0 where it means "none" (testcase)
\* and where it does not (language), and limits on both sides of the steps of Heap.
MCRequest(language, problemTime, languageTime, caseTime, problemMemory, languageMemory, caseMemory) ==
  [language |-> language,
   problemTime |-> problemTime, languageTime |-> languageTime, caseTime |-> caseTime,
   problemMemory |-> problemMemory, languageMemory |-> languageMemory, caseMemory |-> caseMemory]

MCRequests ==
  {MCRequest(l, 1000, Unset, 0, 64, Unset, 0) : l \in Languages}
    \cup {MCRequest("native", Unset, Unset, Unset, Unset, Unset, Unset),
          MCRequest("java", 1000, Unset, Unset, 130, Unset, Unset),
          MCRequest("java", 1000, 0, Unset, 64, 1, Unset),
          MCRequest("python", 1000, 1500, 300, 64, 257, 17)}

MCUse(cpu, idle, memory) == [cpu |-> cpu, idle |-> idle, memory |-> memory]

MCUses == {MCUse(50, 0, 64), MCUse(1000, 2000, 16), MCUse(1000, 2001, 65),
           MCUse(5001, 0, 300)}
=============================================================================
