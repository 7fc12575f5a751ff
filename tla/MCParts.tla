------------------------------ MODULE MCParts -------------------------------
(* Small instances of the parts that do not depend on each other's state: the *)
(* file system's block cache, the tables above it and the data of a file;    *)
(* the life of processes; the clock; the string functions.  part selects the *)
(* one that a behaviour is about; the others keep one initial state.         *)
EXTENDS BlockCache, Files, FileData, Lifecycle, Clock, Strings, TLC

VARIABLE part

Parts == {"cache", "files", "data", "life", "clock", "strings"}

-----------------------------------------------------------------------------
(* Values of the constants *)

\* Directory 2 has a directory, "a", and a device, "t"; the second component of "a/t"
\* is looked up under "at" (path.c), which "a" has.
Path(abs, comps, slash) == [abs |-> abs, comps |-> comps, slash |-> slash]
MCPaths   == {Path(FALSE, <<"a">>, FALSE), Path(TRUE, <<"a", "t">>, FALSE)}
MCKind    == 2 :> "dir" @@ 3 :> "dir" @@ 4 :> "dev"
MCEntries == 2 :> (<<"a">> :> 3) @@ 3 :> (<<"a", "t">> :> 4) @@ 4 :> <<>>

\* A date of the year 2000 + y, with the weekday it has.
Date(y, m, d, s) ==
  [sec |-> s % 60, min |-> (s \div 60) % 60, hour |-> s \div 3600,
   wday |-> Weekday(DayNumber(2000 + y, m, d)), mday |-> d, mon |-> m, year |-> y]
MCBoots == {Date(y, md[1], md[2], s) : y \in {1, 3, 4, 16, 35},
              md \in {<<1, 1>>, <<2, 28>>, <<12, 31>>, <<4, 30>>}, s \in {0, 43261, 86399}}
MCWaits == {1, 59, 86400, 2678400, 31708799}

Symm == Permutations(Values)

-----------------------------------------------------------------------------

PartsInit ==
  /\ part \in Parts
  /\ CacheInit /\ FilesInit /\ LifecycleInit
  /\ DataInit    /\ (part = "data" \/ descr.mode = O_RDONLY)
  /\ ClockInit   /\ (part = "clock" \/ clk.cmos = Date(1, 1, 1, 0))
  /\ StringsInit /\ (part = "strings" \/ mem = [a \in Addresses |-> 0])

Only(p, step, others) == part = p /\ step /\ UNCHANGED others

PartsNext ==
  /\ UNCHANGED part
  /\ \/ Only("cache", CacheNext, <<fs, dataVars, lifecycleVars, clk, stringVars>>)
     \/ Only("files", FilesNext, <<cacheVars, dataVars, lifecycleVars, clk, stringVars>>)
     \/ Only("data", DataNext, <<cacheVars, fs, lifecycleVars, clk, stringVars>>)
     \/ Only("life", LifecycleNext, <<cacheVars, fs, dataVars, clk, stringVars>>)
     \/ Only("clock", ClockNext, <<cacheVars, fs, dataVars, lifecycleVars, stringVars>>)
     \/ Only("strings", StringsNext, <<cacheVars, fs, dataVars, lifecycleVars, clk>>)

PartsSpec ==
  PartsInit /\ [][PartsNext]_<<part, cacheVars, fs, dataVars, lifecycleVars, clk, stringVars>>
=============================================================================
