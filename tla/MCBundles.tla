----------------------------- MODULE MCBundles -----------------------------
EXTENDS Bundles, TLC

Entry(kind, depth, size, skillFile) ==
  [kind |-> kind, depth |-> depth, size |-> size, skillFile |-> skillFile]

SkillFile == Entry("file", 1, 1, TRUE)
Directory == Entry("directory", 1, 0, FALSE)
Inner(size) == Entry("file", 2, size, FALSE)

(* Skills at the limits, and for each limit one that is beyond it.         *)
MCWalks ==
  {<<SkillFile, Directory, Inner(1)>>,
   <<Directory, Inner(2), SkillFile>>,
   <<Directory, Inner(3), SkillFile>>,
   <<SkillFile, Directory, Directory>>,
   <<SkillFile, Directory, Inner(1), Inner(1)>>,
   <<SkillFile, Entry("directory", 3, 0, FALSE)>>,
   <<SkillFile, Entry("link", 1, 0, FALSE)>>,
   <<Directory, Inner(1)>>}

MCIdOf == [d \in Contents |-> CHOOSE b \in Ids : TRUE]

Symmetry == Permutations(Uploaders)
=============================================================================
