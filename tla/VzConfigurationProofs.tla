----------------------- MODULE VzConfigurationProofs -----------------------
(***************************************************************************)
(* Theorems about VzConfiguration, for any configurations, files and       *)
(* processes.  The first part is about the scripts: what each step in them *)
(* looks at, and in which order; the second about the steps of the program.*)
(***************************************************************************)
EXTENDS VzConfigurationInv, SequenceTheorems, TLAPS

(* The files that validate looks for and build_vz_config looks for again.  *)
Foreseen(c) ==
  Range(c.disks) \cup (IF c.kind = "Linux" THEN Range(BootFiles(c)) ELSE { })

HasStore(c) == c.kind = "Efi" /\ c.variable_store # None

(* What a step of the script of c may be.                                  *)
Fits(c, s) ==
  /\ s \in AnyStep
  /\ s.do \in { "look", "attach" } => s.at \in Inputs(c) /\ s.at \in Path
  /\ s.do = "url" => s.at \in Inputs(c) \cup Outputs(c)
  /\ s.do = "provide" => HasStore(c) /\ s.at = c.variable_store
  /\ s.do \in { "open", "write", "rename" }
       => s.at = c.machine_identifier_path /\ s.at # None
  /\ s.do = "log" => s.at = c.serial /\ s.at # None
  /\ s.err \in { "BootFilesNotFound", "DiskNotFound" }
       => s.do = "look" /\ s.at \in Foreseen(c)

Fitting(c) == { s \in AnyStep : Fits(c, s) }

(* The steps that rest on the step before them, and what that is.          *)
Follow == { "open", "write", "rename", "provide" }

Before(do) == CASE do = "write" -> "open" [] do = "rename" -> "write" [] OTHER -> "find"

(* In q, these come right after it, at the same path.                      *)
Ordered(q) ==
  \A i \in 1..Len(q) :
    q[i].do \in Follow
      => i > 1 /\ q[i - 1].do = Before(q[i].do) /\ q[i - 1].at = q[i].at

(* A script of which every part is good is good.                           *)
Good(c, q) == q \in Seq(Fitting(c)) /\ Ordered(q)

LEMMA ConcatGood ==
  ASSUME NEW c, NEW q, NEW r, Good(c, q), Good(c, r)
  PROVE  Good(c, q \o r)
<1>1. /\ q \o r \in Seq(Fitting(c)) /\ Len(q \o r) = Len(q) + Len(r)
      /\ \A i \in 1..Len(q) + Len(r) :
           (q \o r)[i] = IF i <= Len(q) THEN q[i] ELSE r[i - Len(q)]
  BY ConcatProperties DEF Good
<1>2. Len(q) \in Nat /\ Len(r) \in Nat
  BY LenProperties DEF Good
<1>3. ASSUME NEW i \in 1..Len(q \o r), (q \o r)[i].do \in Follow
      PROVE  /\ i > 1 /\ (q \o r)[i - 1].do = Before((q \o r)[i].do)
             /\ (q \o r)[i - 1].at = (q \o r)[i].at
  <2>1. CASE i <= Len(q)
    BY <1>1, <1>2, <1>3, <2>1 DEF Good, Ordered
  <2>2. CASE i > Len(q)
    <3>1. /\ i - Len(q) \in 1..Len(r) /\ (q \o r)[i] = r[i - Len(q)]
          /\ r[i - Len(q)].do \in Follow
      BY <1>1, <1>2, <1>3, <2>2
    <3>2. /\ i - Len(q) > 1 /\ r[i - Len(q) - 1].do = Before(r[i - Len(q)].do)
          /\ r[i - Len(q) - 1].at = r[i - Len(q)].at
      BY <3>1 DEF Good, Ordered
    <3>3. i - 1 > Len(q) /\ i - 1 \in 1..Len(q) + Len(r) /\ (i - 1) - Len(q) = i - Len(q) - 1
      BY <1>1, <1>2, <3>2, <2>2
    <3> QED
      BY <1>1, <1>2, <3>1, <3>2, <3>3
  <2> QED
    BY <1>1, <1>2, <2>1, <2>2
<1> QED
  BY <1>1, <1>3 DEF Good, Ordered

(* The steps of Each.                                                      *)
LEMMA EachGood ==
  ASSUME NEW c, NEW kind, NEW why, NEW paths \in Seq(Path), kind \notin Follow,
         \A i \in 1..Len(paths) : Fits(c, Step(kind, paths[i], why))
  PROVE  Good(c, Each(kind, paths, why))
<1> DEFINE q == Each(kind, paths, why)
<1>1. DOMAIN paths = 1..Len(paths) /\ Len(paths) \in Nat
  OBVIOUS
<1>2. \A i \in 1..Len(paths) : q[i] = Step(kind, paths[i], why)
  BY <1>1 DEF Each
<1>3. q \in Seq(Fitting(c)) /\ Len(q) = Len(paths)
  <2>1. q = [ i \in 1..Len(paths) |-> Step(kind, paths[i], why) ]
    BY <1>1 DEF Each
  <2>2. \A i \in 1..Len(paths) : Step(kind, paths[i], why) \in Fitting(c)
    BY DEF Fitting, Fits
  <2> QED
    BY <1>1, <2>1, <2>2
<1> HIDE DEF q
<1>4. Ordered(q)
  <2>1. ASSUME NEW i \in 1..Len(q)
        PROVE  q[i].do = kind
    <3>1. q[i] = Step(kind, paths[i], why)
      BY <1>2, <1>3
    <3> QED
      BY <3>1 DEF Step
  <2> QED
    BY <2>1 DEF Ordered
<1> QED
  BY <1>3, <1>4 DEF Good, q

LEMMA MaybePath ==
  ASSUME NEW path \in Path \cup { None }
  PROVE  /\ Maybe(path) \in Seq(Path)
         /\ \A i \in 1..Len(Maybe(path)) : Maybe(path)[i] = path /\ path # None
         /\ path # None => path \in Range(Maybe(path))
         /\ Range(Maybe(path)) \subseteq { path } \ { None }
  BY ConfigurationAssumption DEF Maybe, Range

LEMMA ConfigType ==
  ASSUME NEW c \in Config
  PROVE  /\ c.kind \in { "Linux", "Efi" }
         /\ c.kind = "Linux" => BootFiles(c) \in Seq(Path)
         /\ c.kind = "Efi" => c.parent \in Path \cup { None }
         /\ c.kind = "Efi" => c.variable_store \in Path \cup { None }
         /\ c.disks \in Seq(Path) /\ c.shared_dirs \in Seq(Path)
         /\ c.serial \in Path \cup { None }
         /\ c.machine_identifier_path \in Path \cup { None }
<1>1. c.kind = "Linux" => BootFiles(c) \in Seq(Path)
  BY ConfigurationAssumption DEF BootFiles
<1> QED
  BY <1>1, ConfigurationAssumption

(* What a sequence of paths holds.                                         *)
LEMMA InRange ==
  ASSUME NEW paths \in Seq(Path)
  PROVE  /\ \A i \in 1..Len(paths) : paths[i] \in Range(paths) /\ paths[i] \in Path
         /\ \A f \in Range(paths) : \E i \in 1..Len(paths) : paths[i] = f
  BY DEF Range

(* Each, of the paths of a configuration that one step fits.                *)
LEMMA LookGood ==
  ASSUME NEW c \in Config, NEW err, NEW paths \in Seq(Path),
         Range(paths) \subseteq Inputs(c) \cap Foreseen(c),
         err \in { "BootFilesNotFound", "DiskNotFound" }
  PROVE  Good(c, Each("look", paths, err))
<1>1. ASSUME NEW i \in 1..Len(paths)
      PROVE  Fits(c, Step("look", paths[i], err))
  BY InRange DEF Fits, Step, AnyStep, Error
<1> QED
  BY <1>1, EachGood DEF Follow

LEMMA UrlGood ==
  ASSUME NEW c \in Config, NEW paths \in Seq(Path),
         Range(paths) \subseteq Inputs(c) \cup Outputs(c)
  PROVE  Good(c, Each("url", paths, "InvalidConfig"))
<1>1. ASSUME NEW i \in 1..Len(paths)
      PROVE  Fits(c, Step("url", paths[i], "InvalidConfig"))
  BY InRange DEF Fits, Step, AnyStep, Error
<1> QED
  BY <1>1, EachGood DEF Follow

(* The part of validate that depends on the boot mode.                     *)
BootLooks(c) ==
  IF c.kind = "Linux" THEN Each("look", BootFiles(c), "BootFilesNotFound")
                      ELSE Each("look", Maybe(c.parent), "Validation")

DiskLooks(c) == Each("look", c.disks, "DiskNotFound")

LEMMA LooksGood ==
  ASSUME NEW c \in Config
  PROVE  Good(c, BootLooks(c)) /\ Good(c, DiskLooks(c))
<1>1. Good(c, DiskLooks(c))
  BY ConfigType, LookGood DEF Inputs, Foreseen, DiskLooks
<1>2. CASE c.kind = "Linux"
  <2>1. Good(c, Each("look", BootFiles(c), "BootFilesNotFound"))
    BY <1>2, ConfigType, LookGood DEF Inputs, Foreseen
  <2> QED
    BY <1>1, <1>2, <2>1 DEF BootLooks
<1>3. CASE c.kind = "Efi"
  <2>1. Maybe(c.parent) \in Seq(Path) /\ Range(Maybe(c.parent)) \subseteq Inputs(c)
    BY <1>3, ConfigType, MaybePath DEF Inputs
  <2>2. ASSUME NEW i \in 1..Len(Maybe(c.parent))
        PROVE  Fits(c, Step("look", Maybe(c.parent)[i], "Validation"))
    BY <2>1, InRange DEF Fits, Step, AnyStep, Error
  <2>3. Good(c, Each("look", Maybe(c.parent), "Validation"))
    BY <2>1, <2>2, EachGood DEF Follow
  <2> QED
    BY <1>1, <1>3, <2>3 DEF BootLooks
<1> QED
  BY <1>2, <1>3, ConfigType

LEMMA ValidateGood ==
  ASSUME NEW c \in Config
  PROVE  Good(c, ValidateScript(c))
<1>1. ValidateScript(c) = BootLooks(c) \o DiskLooks(c)
  BY DEF ValidateScript, BootLooks, DiskLooks
<1> QED
  BY <1>1, LooksGood, ConcatGood

(* The steps on the variable store, and the other ones, of setup_boot_loader. *)
LEMMA BootGood ==
  ASSUME NEW c \in Config
  PROVE  Good(c, BootScript(c))
<1>1. CASE c.kind = "Linux"
  <2>1. /\ Good(c, Each("look", BootFiles(c), "BootFilesNotFound"))
        /\ Good(c, Each("url", BootFiles(c), "InvalidConfig"))
    BY <1>1, ConfigType, LookGood, UrlGood DEF Inputs, Foreseen
  <2> QED
    BY <1>1, <2>1, ConcatGood DEF BootScript
<1>2. CASE c.kind = "Efi" /\ c.variable_store = None
  <2>1. Each("url", Maybe(c.variable_store), "InvalidConfig") = << >>
        /\ Each("find", Maybe(c.variable_store), "Framework") = << >>
        /\ Each("provide", Maybe(c.variable_store), "Framework") = << >>
    BY <1>2 DEF Each, Maybe
  <2>2. Good(c, << >>)
    BY DEF Good, Ordered
  <2> QED
    BY <1>2, <2>1, <2>2, ConcatGood DEF BootScript
<1>3. CASE c.kind = "Efi" /\ c.variable_store # None
  <2> DEFINE f == c.variable_store
             u == Step("url", f, "InvalidConfig")
             e == Step("find", f, "Framework")
             m == Step("provide", f, "Framework")
  <2>1. /\ Each("url", Maybe(f), "InvalidConfig") = << u >>
        /\ Each("find", Maybe(f), "Framework") = << e >>
        /\ Each("provide", Maybe(f), "Framework") = << m >>
    BY <1>3 DEF Each, Maybe
  <2>2. /\ BootScript(c) \in Seq({ u, e, m }) /\ Len(BootScript(c)) = 3
        /\ BootScript(c)[1] = u /\ BootScript(c)[2] = e /\ BootScript(c)[3] = m
    <3> DEFINE q == << u >> \o << e >>
    <3>1. BootScript(c) = q \o << m >>
      BY <1>3, <2>1 DEF BootScript
    <3> HIDE DEF u, e, m
    <3>2. q \in Seq({ u, e, m }) /\ Len(q) = 2 /\ q[1] = u /\ q[2] = e
      BY ConcatProperties
    <3> HIDE DEF q
    <3>3. << m >> \in Seq({ u, e, m }) /\ Len(<< m >>) = 1 /\ << m >>[1] = m
      OBVIOUS
    <3>4. /\ q \o << m >> \in Seq({ u, e, m }) /\ Len(q \o << m >>) = 3
          /\ \A i \in 1..3 : (q \o << m >>)[i] = IF i <= 2 THEN q[i] ELSE << m >>[i - 2]
      <4> DEFINE r == << m >>
      <4>1. /\ q \in Seq({ u, e, m }) /\ Len(q) = 2
            /\ r \in Seq({ u, e, m }) /\ Len(r) = 1
        BY <3>2, <3>3
      <4> HIDE DEF r
      <4>2. /\ q \o r \in Seq({ u, e, m }) /\ Len(q \o r) = Len(q) + Len(r)
            /\ \A i \in 1..Len(q) + Len(r) :
                 (q \o r)[i] = IF i <= Len(q) THEN q[i] ELSE r[i - Len(q)]
        BY <4>1, ConcatProperties
      <4> QED
        BY <4>1, <4>2 DEF r
    <3> QED
      BY <3>1, <3>2, <3>3, <3>4
  <2>3. f \in Path /\ f \in Outputs(c)
    BY <1>3, ConfigType, MaybePath DEF Outputs
  <2>4. u \in Fitting(c) /\ e \in Fitting(c) /\ m \in Fitting(c)
    BY <1>3, <2>3 DEF Fitting, Fits, Step, AnyStep, Error, HasStore
  <2>5. /\ u.do \notin Follow /\ e.do \notin Follow
        /\ e.do = Before(m.do) /\ e.at = m.at
    BY DEF Step, Follow, Before
  <2>6. BootScript(c) \in Seq(Fitting(c))
    BY <2>2, <2>4
  <2>7. ASSUME NEW i \in 1..3, BootScript(c)[i].do \in Follow
        PROVE  /\ i > 1 /\ BootScript(c)[i - 1].do = Before(BootScript(c)[i].do)
               /\ BootScript(c)[i - 1].at = BootScript(c)[i].at
    <3>1. i = 3
      BY <2>2, <2>5, <2>7
    <3> HIDE DEF u, e, m
    <3> QED
      BY <2>2, <2>5, <3>1
  <2> HIDE DEF u, e, m
  <2> QED
    BY <2>2, <2>6, <2>7 DEF Good, Ordered
<1> QED
  BY <1>1, <1>2, <1>3, ConfigType

LEMMA DiskGood ==
  ASSUME NEW c \in Config
  PROVE  Good(c, DiskScript(c))
<1> DEFINE d(i) == c.disks[(i + 2) \div 3]
           q == DiskScript(c)
<1>1. c.disks \in Seq(Path) /\ Len(c.disks) \in Nat
  BY ConfigType
<1>2. ASSUME NEW i \in 1..3 * Len(c.disks)
      PROVE  /\ q[i] \in Fitting(c)
             /\ q[i].do \notin Follow
  <2>1. (i + 2) \div 3 \in 1..Len(c.disks) /\ ((i + 2) % 3) + 1 \in 1..3
    BY <1>1
  <2>2. d(i) \in Path /\ d(i) \in Range(c.disks)
    BY <1>1, <2>1, InRange
  <2>3. q[i] \in { Step("look", d(i), "DiskNotFound"), Step("url", d(i), "InvalidConfig"),
                   Step("attach", d(i), "Framework") }
    BY <2>1 DEF DiskScript
  <2> HIDE DEF q
  <2> QED
    BY <2>2, <2>3 DEF Fitting, Fits, Step, AnyStep, Error, Inputs, Foreseen, Follow
<1>3. q \in Seq(Fitting(c)) /\ Len(q) = 3 * Len(c.disks)
  <2>1. q = [ i \in 1..3 * Len(c.disks) |-> q[i] ] /\ 3 * Len(c.disks) \in Nat
    BY <1>1 DEF DiskScript
  <2> HIDE DEF q
  <2> QED
    BY <1>2, <2>1
<1> HIDE DEF q
<1>4. Ordered(q)
  BY <1>2, <1>3 DEF Ordered
<1> QED
  BY <1>3, <1>4 DEF Good, q

LEMMA SerialGood ==
  ASSUME NEW c \in Config
  PROVE  Good(c, SerialScript(c))
<1> DEFINE paths == Maybe(c.serial)
<1>1. /\ paths \in Seq(Path) /\ Range(paths) \subseteq Outputs(c)
      /\ \A i \in 1..Len(paths) : paths[i] = c.serial /\ c.serial # None
  BY ConfigType, MaybePath DEF Outputs
<1> HIDE DEF paths
<1>2. Good(c, Each("url", paths, "InvalidConfig"))
  BY <1>1, UrlGood
<1>3. ASSUME NEW i \in 1..Len(paths)
      PROVE  Fits(c, Step("log", paths[i], "Framework"))
  BY <1>1, InRange DEF Fits, Step, AnyStep, Error
<1>4. Good(c, Each("log", paths, "Framework"))
  BY <1>1, <1>3, EachGood DEF Follow
<1> QED
  BY <1>2, <1>4, ConcatGood DEF SerialScript, paths

LEMMA SharedDirGood ==
  ASSUME NEW c \in Config
  PROVE  Good(c, SharedDirScript(c))
<1>1. c.shared_dirs \in Seq(Path) /\ Range(c.shared_dirs) \subseteq Inputs(c)
  BY ConfigType DEF Inputs
<1> DEFINE d(i) == c.shared_dirs[(i + 1) \div 2]
           q == SharedDirScript(c)
<1>2. ASSUME NEW i \in 1..2 * Len(c.shared_dirs)
      PROVE  q[i] \in Fitting(c) /\ q[i].do \notin Follow
  <2>1. (i + 1) \div 2 \in 1..Len(c.shared_dirs) /\ ((i + 1) % 2) + 1 \in 1..2
    BY <1>1
  <2>2. d(i) \in Path /\ d(i) \in Inputs(c)
    BY <1>1, <2>1, InRange
  <2>3. q[i] \in { Step("look", d(i), "InvalidConfig"), Step("url", d(i), "InvalidConfig") }
    <3>1. q[i] = << Step("look", d(i), "InvalidConfig"),
                    Step("url", d(i), "InvalidConfig") >>[((i + 1) % 2) + 1]
      BY DEF SharedDirScript
    <3>2. ((i + 1) % 2) + 1 = 1 \/ ((i + 1) % 2) + 1 = 2
      BY <1>1
    <3> HIDE DEF q
    <3> QED
      BY <3>1, <3>2
  <2> HIDE DEF q
  <2> QED
    BY <2>2, <2>3 DEF Fitting, Fits, Step, AnyStep, Error, Follow
<1>3. q \in Seq(Fitting(c)) /\ Len(q) = 2 * Len(c.shared_dirs)
  <2>1. q = [ i \in 1..2 * Len(c.shared_dirs) |-> q[i] ] /\ 2 * Len(c.shared_dirs) \in Nat
    BY <1>1 DEF SharedDirScript
  <2> HIDE DEF q
  <2> QED
    BY <1>2, <2>1
<1> HIDE DEF q
<1>4. Ordered(q)
  BY <1>2, <1>3 DEF Ordered
<1> QED
  BY <1>3, <1>4 DEF Good, q

(* The steps of load_or_create_machine_identifier.                         *)
LEMMA IdentifierGood ==
  ASSUME NEW c \in Config
  PROVE  Good(c, IdentifierScript(c))
<1> DEFINE f == c.machine_identifier_path
           s(do) == Step(do, f, "Validation")
           q == IdentifierScript(c)
<1>1. CASE f = None
  BY <1>1 DEF IdentifierScript, Good, Ordered
<1>2. CASE f # None
  <2>1. q = << s("find"), s("open"), s("write"), s("rename") >>
    BY <1>2 DEF IdentifierScript
  <2>2. f \in Path
    BY <1>2, ConfigType
  <2>3. \A do \in { "find", "open", "write", "rename" } : s(do) \in Fitting(c)
    BY <1>2, <2>2 DEF Fitting, Fits, Step, AnyStep, Error
  <2>4. /\ q \in Seq(Fitting(c)) /\ Len(q) = 4
        /\ q[1] = s("find") /\ q[2] = s("open") /\ q[3] = s("write") /\ q[4] = s("rename")
    <3> HIDE DEF s, q, f
    <3> QED
      BY <2>1, <2>3
  <2>5. \A i \in 1..4 : q[i].at = f
    <3> HIDE DEF q
    <3> QED
      BY <2>4 DEF Step
  <2>6. q[1].do = "find" /\ q[2].do = "open" /\ q[3].do = "write" /\ q[4].do = "rename"
    <3> HIDE DEF q
    <3> QED
      BY <2>4 DEF Step
  <2> HIDE DEF q, s
  <2>7. ASSUME NEW i \in 1..4, q[i].do \in Follow
        PROVE  i > 1 /\ q[i - 1].do = Before(q[i].do) /\ q[i - 1].at = q[i].at
    <3>1. i \in { 2, 3, 4 }
      BY <2>6, <2>7 DEF Follow
    <3> QED
      BY <2>5, <2>6, <3>1 DEF Before
  <2> QED
    BY <2>4, <2>7 DEF Good, Ordered, q
<1> QED
  BY <1>1, <1>2

(* A step that looks at no file.                                           *)
LEMMA SingleGood ==
  ASSUME NEW c, NEW s \in { Step("mac", None, "InvalidMac"), Step("validate", None, "Framework") }
  PROVE  Good(c, << s >>)
<1>1. s \in Fitting(c) /\ s.do \notin Follow
  BY DEF Fitting, Fits, Step, AnyStep, Error, Follow
<1> QED
  BY <1>1 DEF Good, Ordered

LEMMA BuildGood ==
  ASSUME NEW c \in Config
  PROVE  Good(c, BuildScript(c))
<1> DEFINE mac == << Step("mac", None, "InvalidMac") >>
           end == << Step("validate", None, "Framework") >>
           ident == IdentifierScript(c)
<1>1. Good(c, mac) /\ Good(c, end) /\ Good(c, ident)
  BY SingleGood, IdentifierGood
<1>2. BuildScript(c) = ident \o BootScript(c) \o DiskScript(c) \o mac
                         \o SerialScript(c) \o SharedDirScript(c) \o end
  BY DEF BuildScript
<1> HIDE DEF mac, end, ident
<1>3. Good(c, ident \o BootScript(c))
  BY <1>1, BootGood, ConcatGood
<1>4. Good(c, ident \o BootScript(c) \o DiskScript(c))
  BY <1>3, DiskGood, ConcatGood
<1>5. Good(c, ident \o BootScript(c) \o DiskScript(c) \o mac)
  BY <1>1, <1>4, ConcatGood
<1>6. Good(c, ident \o BootScript(c) \o DiskScript(c) \o mac \o SerialScript(c))
  BY <1>5, SerialGood, ConcatGood
<1>7. Good(c, ident \o BootScript(c) \o DiskScript(c) \o mac \o SerialScript(c)
                \o SharedDirScript(c))
  BY <1>6, SharedDirGood, ConcatGood
<1> QED
  BY <1>1, <1>2, <1>7, ConcatGood

(* validate looks for every file that build_vz_config looks for again.     *)
LEMMA ValidateLooks ==
  ASSUME NEW c \in Config, NEW f \in Foreseen(c)
  PROVE  \E j \in 1..Len(ValidateScript(c)) :
           ValidateScript(c)[j].do = "look" /\ ValidateScript(c)[j].at = f
<1> DEFINE q == BootLooks(c)
           r == DiskLooks(c)
<1>1. ValidateScript(c) = q \o r
  BY DEF ValidateScript, BootLooks, DiskLooks
<1>2. /\ Len(q \o r) = Len(q) + Len(r) /\ Len(q) \in Nat /\ Len(r) \in Nat
      /\ \A i \in 1..Len(q) + Len(r) :
           (q \o r)[i] = IF i <= Len(q) THEN q[i] ELSE r[i - Len(q)]
  <2>1. q \in Seq(Fitting(c)) /\ r \in Seq(Fitting(c))
    BY LooksGood DEF Good
  <2> HIDE DEF q, r
  <2> QED
    BY <2>1, ConcatProperties, LenProperties
<1>3. CASE f \in Range(c.disks)
  <2>1. PICK i \in 1..Len(c.disks) : c.disks[i] = f
    BY <1>3, ConfigType, InRange
  <2>2. Len(r) = Len(c.disks) /\ r[i] = Step("look", f, "DiskNotFound")
    BY <2>1, ConfigType DEF DiskLooks, Each
  <2> HIDE DEF q, r
  <2>3. Len(q) + i \in 1..Len(q) + Len(r) /\ (q \o r)[Len(q) + i] = r[i]
    BY <1>2, <2>2
  <2>4. r[i].do = "look" /\ r[i].at = f
    BY <2>2 DEF Step
  <2> QED
    BY <1>1, <1>2, <2>3, <2>4
<1>4. CASE c.kind = "Linux" /\ f \in Range(BootFiles(c))
  <2>1. PICK i \in 1..Len(BootFiles(c)) : BootFiles(c)[i] = f
    BY <1>4, ConfigType, InRange
  <2>2. Len(q) = Len(BootFiles(c)) /\ q[i] = Step("look", f, "BootFilesNotFound")
    BY <1>4, <2>1, ConfigType DEF BootLooks, Each
  <2> HIDE DEF q, r
  <2>3. i \in 1..Len(q) + Len(r) /\ (q \o r)[i] = q[i]
    BY <1>2, <2>2
  <2> QED
    BY <1>1, <1>2, <2>2, <2>3 DEF Step
<1> QED
  BY <1>3, <1>4 DEF Foreseen

LEMMA ScriptGood ==
  ASSUME NEW c \in Config
  PROVE  Good(c, Script(c))
  BY ValidateGood, BuildGood, ConcatGood DEF Script

-----------------------------------------------------------------------------
(* The steps of the program.                                               *)

(* What is left of a create, and its next step.                            *)
LEMMA NextStep ==
  ASSUME CreateInv, NEW p \in Proc
  PROVE  /\ config \in Config
         /\ todo[p] \in Seq(AnyStep) /\ Len(todo[p]) \in Nat
         /\ Len(Script(config)) \in Nat
         /\ Len(Script(config)) = Len(ValidateScript(config)) + Len(BuildScript(config))
         /\ Len(ValidateScript(config)) \in Nat /\ Len(BuildScript(config)) \in Nat
         /\ Done(p) \in 0..Len(Script(config))
         /\ Busy(p) => /\ Len(todo[p]) > 0 /\ Done(p) + 1 \in 1..Len(Script(config))
                       /\ This(p) = Script(config)[Done(p) + 1]
                       /\ Fits(config, This(p))
<1>1. config \in Config /\ todo[p] \in Seq(AnyStep) /\ Len(todo[p]) \in Nat
  BY LenProperties DEF CreateInv, TypeOK
<1>2. /\ Script(config) \in Seq(Fitting(config))
      /\ ValidateScript(config) \in Seq(Fitting(config))
      /\ BuildScript(config) \in Seq(Fitting(config))
  BY <1>1, ScriptGood, ValidateGood, BuildGood DEF Good
<1>3. /\ Len(Script(config)) = Len(ValidateScript(config)) + Len(BuildScript(config))
      /\ Len(ValidateScript(config)) \in Nat /\ Len(BuildScript(config)) \in Nat
      /\ Len(Script(config)) \in Nat
  BY <1>2, ConcatProperties, LenProperties DEF Script
<1>4. Done(p) \in 0..Len(Script(config))
  BY <1>1, <1>3 DEF CreateInv, TypeOK, Done
<1>5. ASSUME Busy(p)
      PROVE  /\ Len(todo[p]) > 0 /\ Done(p) + 1 \in 1..Len(Script(config))
             /\ This(p) = Script(config)[Done(p) + 1]
             /\ Fits(config, This(p))
  <2>1. Len(todo[p]) > 0 /\ This(p) = todo[p][1]
    BY <1>1, <1>5 DEF Busy, This
  <2>2. todo[p][1] = Script(config)[Done(p) + 1]
    BY <1>1, <1>5, <2>1 DEF CreateInv, ScriptInv
  <2>3. Done(p) + 1 \in 1..Len(Script(config))
    BY <1>1, <1>3, <1>4, <2>1 DEF Done
  <2>4. Script(config)[Done(p) + 1] \in Fitting(config)
    BY <1>2, <2>3, ElementOfSeq
  <2> QED
    BY <2>1, <2>2, <2>3, <2>4 DEF Fitting
<1> QED
  BY <1>1, <1>3, <1>4, <1>5

(* The steps that validate has taken are those it was made of.             *)
LEMMA Validated ==
  ASSUME CreateInv, NEW p \in Proc, Late(p), NEW f \in Foreseen(config)
  PROVE  \E i \in 1..Done(p) : Script(config)[i].do = "look" /\ Script(config)[i].at = f
<1>1. PICK i \in 1..Len(ValidateScript(config)) :
        ValidateScript(config)[i].do = "look" /\ ValidateScript(config)[i].at = f
  BY NextStep, ValidateLooks
<1>2. i \in 1..Done(p)
  <2>1. /\ Len(ValidateScript(config)) \in Nat /\ Len(BuildScript(config)) \in Nat
        /\ Len(Script(config)) = Len(ValidateScript(config)) + Len(BuildScript(config))
        /\ Len(todo[p]) \in Nat /\ Len(todo[p]) <= Len(BuildScript(config))
    BY NextStep DEF Late
  <2> QED
    BY <2>1 DEF Done
<1>3. Script(config)[i] = ValidateScript(config)[i]
  <2>1. /\ ValidateScript(config) \in Seq(Fitting(config))
        /\ BuildScript(config) \in Seq(Fitting(config))
    BY NextStep, ValidateGood, BuildGood DEF Good
  <2> QED
    BY <2>1, NextStep, ConcatProperties DEF Script
<1> QED
  BY <1>1, <1>2, <1>3

(* One process has taken a step of its script.                             *)
LEMMA Stepped ==
  ASSUME CreateInv, NEW p \in Proc, Busy(p), config' = config,
         todo' = [todo EXCEPT ![p] = Tail(@)]
  PROVE  /\ todo' \in [Proc -> Seq(AnyStep)]
         /\ \A q \in Proc : Len(todo'[q]) <= Len(ValidateScript(config)) + Len(BuildScript(config))
         /\ Done(p)' = Done(p) + 1
         /\ \A q \in Proc : q # p => todo'[q] = todo[q] /\ Done(q)' = Done(q)
         /\ ScriptInv'
<1>1. /\ todo[p] \in Seq(AnyStep) /\ todo[p] # << >>
      /\ todo \in [Proc -> Seq(AnyStep)]
  BY NextStep DEF Busy, CreateInv, TypeOK
<1>2. /\ todo'[p] \in Seq(AnyStep) /\ Len(todo'[p]) = Len(todo[p]) - 1
      /\ \A i \in 1..Len(todo'[p]) : todo'[p][i] = todo[p][i + 1]
      /\ todo' \in [Proc -> Seq(AnyStep)]
  BY <1>1, HeadTailProperties
<1>3. \A q \in Proc : q # p => todo'[q] = todo[q] /\ Done(q)' = Done(q)
  BY <1>1 DEF Done
<1>4. Done(p)' = Done(p) + 1
  BY <1>1, <1>2, NextStep DEF Done
<1>5. \A q \in Proc : Len(todo'[q]) <= Len(ValidateScript(config)) + Len(BuildScript(config))
  BY <1>2, <1>3, NextStep DEF CreateInv, TypeOK
<1>6. ScriptInv'
  <2>1. ASSUME NEW q \in Proc, Busy(q)', NEW i \in 1..Len(todo'[q])
        PROVE  todo'[q][i] = Script(config)[Done(q)' + i]
    <3>1. CASE q = p
      <4>1. i + 1 \in 1..Len(todo[p]) /\ Done(p)' + i = Done(p) + (i + 1)
        BY <1>2, <1>4, <3>1, NextStep
      <4> QED
        BY <1>2, <3>1, <4>1 DEF CreateInv, ScriptInv
    <3>2. CASE q # p
      BY <1>3, <2>1, <3>2 DEF CreateInv, ScriptInv, Busy
    <3> QED
      BY <3>1, <3>2
  <2> QED
    BY <2>1 DEF ScriptInv
<1> QED
  BY <1>2, <1>3, <1>4, <1>5, <1>6

(* ... and files were only added.                                          *)
LEMMA Advanced ==
  ASSUME CreateInv, NEW p \in Proc, Busy(p), config' = config,
         todo' = [todo EXCEPT ![p] = Tail(@)],
         \A f \in Path : fs[f] # "none" => fs'[f] # "none",
         \A q \in Proc : excused[q] \subseteq excused'[q],
         This(p).do = "look" => fs[This(p).at] # "none"
  PROVE  /\ todo' \in [Proc -> Seq(AnyStep)]
         /\ \A q \in Proc : Len(todo'[q]) <= Len(ValidateScript(config)) + Len(BuildScript(config))
         /\ Done(p)' = Done(p) + 1
         /\ ScriptInv' /\ LookedInv'
<1>1. /\ todo' \in [Proc -> Seq(AnyStep)]
      /\ \A q \in Proc : Len(todo'[q]) <= Len(ValidateScript(config)) + Len(BuildScript(config))
      /\ Done(p)' = Done(p) + 1
      /\ \A q \in Proc : q # p => todo'[q] = todo[q] /\ Done(q)' = Done(q)
      /\ ScriptInv'
  BY Stepped
<1>2. LookedInv'
  <2>1. ASSUME NEW q \in Proc, "moved" \notin excused'[q], Busy(q)', NEW i \in 1..Done(q)',
               Script(config)[i].do = "look"
        PROVE  fs'[Script(config)[i].at] # "none"
    <3>1. CASE i \in 1..Done(q)
      <4>1. Busy(q) /\ "moved" \notin excused[q]
        BY <1>1, <2>1 DEF Busy
      <4>2. fs[Script(config)[i].at] # "none"
        BY <2>1, <3>1, <4>1 DEF CreateInv, LookedInv
      <4>3. Script(config)[i].at \in Path
        <5>1. i \in 1..Len(Script(config))
          BY <3>1, NextStep
        <5>2. Script(config)[i] \in Fitting(config)
          BY <5>1, NextStep, ScriptGood, ElementOfSeq DEF Good
        <5> QED
          BY <2>1, <5>2 DEF Fitting, Fits
      <4> QED
        BY <4>2, <4>3
    <3>2. CASE i \notin 1..Done(q)
      <4>1. q = p /\ i = Done(p) + 1
        BY <1>1, <2>1, <3>2, NextStep
      <4>2. This(p) = Script(config)[i] /\ Fits(config, This(p))
        BY <4>1, NextStep
      <4>3. This(p).at \in Path
        BY <2>1, <4>2 DEF Fits
      <4> QED
        BY <2>1, <4>2, <4>3
    <3> QED
      BY <3>1, <3>2
  <2> QED
    BY <2>1 DEF LookedInv
<1> QED
  BY <1>1, <1>2

(* One create has ended, or a file was written by somebody in no create.   *)
LEMMA Ended ==
  ASSUME CreateInv, config' = config,
         todo' \in [Proc -> Seq(AnyStep)],
         \A q \in Proc : todo'[q] \in { todo[q], << >> },
         \A q \in Proc : "moved" \in excused[q] => "moved" \in excused'[q],
         \/ \A f \in Path : fs[f] # "none" => fs'[f] # "none"
         \/ \A q \in Proc : "moved" \in excused'[q]
  PROVE  /\ \A q \in Proc : Len(todo'[q]) <= Len(ValidateScript(config)) + Len(BuildScript(config))
         /\ ScriptInv' /\ LookedInv'
<1>1. \A q \in Proc : Busy(q)' => Busy(q) /\ todo'[q] = todo[q] /\ Done(q)' = Done(q)
  BY DEF Busy, Done
<1>2. \A q \in Proc : Len(todo'[q]) <= Len(ValidateScript(config)) + Len(BuildScript(config))
  <2>1. \A q \in Proc : Len(todo[q]) <= Len(ValidateScript(config)) + Len(BuildScript(config))
    BY DEF CreateInv, TypeOK
  <2>2. Len(<< >>) = 0 /\ 0 <= Len(ValidateScript(config)) + Len(BuildScript(config))
    BY NextStep DEF CreateInv
  <2> QED
    BY <2>1, <2>2
<1>3. ScriptInv'
  BY <1>1 DEF CreateInv, ScriptInv
<1>4. LookedInv'
  <2>1. ASSUME NEW q \in Proc, "moved" \notin excused'[q], Busy(q)', NEW i \in 1..Done(q)',
               Script(config)[i].do = "look"
        PROVE  fs'[Script(config)[i].at] # "none"
    <3>1. Busy(q) /\ i \in 1..Done(q) /\ "moved" \notin excused[q]
      BY <1>1, <2>1
    <3>2. fs[Script(config)[i].at] # "none"
      BY <2>1, <3>1 DEF CreateInv, LookedInv
    <3>3. i \in 1..Len(Script(config))
      BY <3>1, NextStep
    <3>4. Script(config)[i] \in Fitting(config)
      BY <3>3, NextStep, ScriptGood, ElementOfSeq DEF Good
    <3>5. Script(config)[i].at \in Path
      BY <2>1, <3>4 DEF Fitting, Fits
    <3> QED
      BY <2>1, <3>2, <3>5
  <2> QED
    BY <2>1 DEF LookedInv
<1> QED
  BY <1>2, <1>3, <1>4

(* A create begins with its script.                                        *)
LEMMA Began ==
  ASSUME CreateInv, NEW p \in Proc, Create(p)
  PROVE  /\ todo' \in [Proc -> Seq(AnyStep)]
         /\ \A q \in Proc : Len(todo'[q]) <= Len(ValidateScript(config)) + Len(BuildScript(config))
         /\ ScriptInv' /\ LookedInv'
<1>1. /\ Script(config) \in Seq(Fitting(config)) /\ config' = config
      /\ Script(config) \in Seq(AnyStep)
  BY NextStep, ScriptGood, SeqMonotonic DEF Good, Fitting, Create
<1>2. /\ todo' = [todo EXCEPT ![p] = Script(config)]
      /\ todo'[p] = Script(config) /\ todo' \in [Proc -> Seq(AnyStep)]
      /\ \A q \in Proc : q # p => todo'[q] = todo[q]
  BY <1>1 DEF Create, Script, CreateInv, TypeOK
<1>3. /\ \A q \in Proc : q # p => Done(q)' = Done(q) /\ Busy(q)' = Busy(q)
      /\ Done(p)' = 0
  <2>1. Len(Script(config)) \in Nat
    BY NextStep
  <2> QED
    BY <1>1, <1>2, <2>1 DEF Done, Busy
<1>4. \A q \in Proc : Len(todo'[q]) <= Len(ValidateScript(config)) + Len(BuildScript(config))
  BY <1>2, NextStep DEF CreateInv, TypeOK
<1>5. ScriptInv'
  <2>1. ASSUME NEW q \in Proc, Busy(q)', NEW i \in 1..Len(todo'[q])
        PROVE  todo'[q][i] = Script(config)[Done(q)' + i]
    <3>1. CASE q = p
      BY <1>2, <1>3, <3>1
    <3>2. CASE q # p
      BY <1>2, <1>3, <2>1, <3>2 DEF CreateInv, ScriptInv
    <3> QED
      BY <3>1, <3>2
  <2> QED
    BY <1>1, <2>1 DEF ScriptInv
<1>6. LookedInv'
  <2>1. fs' = fs /\ \A q \in Proc : q # p => excused'[q] = excused[q]
    BY DEF Create, CreateInv, TypeOK
  <2>2. ASSUME NEW q \in Proc, "moved" \notin excused'[q], Busy(q)', NEW i \in 1..Done(q)',
               Script(config)[i].do = "look"
        PROVE  fs'[Script(config)[i].at] # "none"
    <3>1. q # p
      BY <1>3, <2>2
    <3> QED
      BY <1>3, <2>1, <2>2, <3>1 DEF CreateInv, LookedInv
  <2> QED
    BY <1>1, <2>2 DEF LookedInv
<1> QED
  BY <1>2, <1>4, <1>5, <1>6

(* A step that rests on the step before it follows that step only.         *)
LEMMA Preceded ==
  ASSUME CreateInv, NEW p \in Proc, Busy(p), config' = config,
         todo' = [todo EXCEPT ![p] = Tail(@)], ScriptInv', Done(p)' = Done(p) + 1,
         Busy(p)', This(p)'.do \in Follow
  PROVE  /\ This(p).do = Before(This(p)'.do) /\ This(p).at = This(p)'.at
         /\ Fits(config, This(p)')
<1> DEFINE k == Done(p)
<1>1. /\ todo'[p] # << >> /\ todo'[p] \in Seq(AnyStep) /\ This(p)' = todo'[p][1]
      /\ Len(todo'[p]) >= 1 /\ Len(todo'[p]) = Len(todo[p]) - 1
  <2>1. todo[p] \in Seq(AnyStep) /\ todo[p] # << >> /\ todo'[p] = Tail(todo[p])
    BY NextStep DEF Busy, CreateInv, TypeOK
  <2>2. todo'[p] \in Seq(AnyStep) /\ Len(todo'[p]) = Len(todo[p]) - 1
    BY <2>1, HeadTailProperties
  <2>3. todo'[p] # << >>
    BY DEF Busy
  <2> QED
    BY <2>2, <2>3 DEF This
<1>2. This(p)' = Script(config)[k + 2]
  <2>1. todo'[p][1] = Script(config')[Done(p)' + 1]
    BY <1>1 DEF ScriptInv
  <2> QED
    BY <1>1, <2>1, NextStep
<1>3. k + 2 \in 1..Len(Script(config)) /\ (k + 2) - 1 = k + 1 /\ k \in Nat
  <2>1. Len(todo[p]) >= 2 /\ Len(todo[p]) \in Nat /\ Len(Script(config)) \in Nat /\ k \in Nat
    BY <1>1, NextStep
  <2>2. k = Len(Script(config)) - Len(todo[p])
    BY DEF Done
  <2> HIDE DEF k
  <2> QED
    BY <2>1, <2>2
<1>4. Ordered(Script(config))
  BY NextStep, ScriptGood DEF Good
<1>5. /\ Script(config)[(k + 2) - 1].do = Before(This(p)'.do)
      /\ Script(config)[(k + 2) - 1].at = This(p)'.at
  BY <1>2, <1>3, <1>4 DEF Ordered
<1>6. Fits(config, This(p)')
  <2>1. Script(config) \in Seq(Fitting(config))
    BY NextStep, ScriptGood DEF Good
  <2>2. Script(config)[k + 2] \in Fitting(config)
    BY <1>3, <2>1, ElementOfSeq
  <2> QED
    BY <1>2, <2>2 DEF Fitting
<1> QED
  BY <1>3, <1>5, <1>6, NextStep

LEMMA NotNext ==
  ASSUME CreateInv, NEW p \in Proc, Busy(p), Advance(p), config' = config,
         NEW do \in Follow, This(p).do # Before(do)
  PROVE  ~ Runs(p, do)'
  BY Stepped, Preceded DEF Advance, Runs, This

(* RaceInv outlives a step after which no store has appeared unnoticed.    *)
LEMMA RaceKept ==
  ASSUME CreateInv, NEW p \in Proc, config' = config, found' = found,
         ScriptInv', This(p).do # "find",
         \/ todo' = [todo EXCEPT ![p] = << >>]
         \/ Busy(p) /\ todo' = [todo EXCEPT ![p] = Tail(@)] /\ Done(p)' = Done(p) + 1,
         \A q \in Proc \ { p } :
           /\ excused[q] \subseteq excused'[q]
           /\ HasStore(config) /\ fs[config.variable_store] = "none"
                => \/ fs'[config.variable_store] = "none"
                   \/ "raced" \in excused'[q]
  PROVE  RaceInv'
<1>1. ~ Runs(p, "provide")'
  <2>1. CASE todo' = [todo EXCEPT ![p] = << >>]
    BY <2>1 DEF Runs, Busy, CreateInv, TypeOK
  <2>2. CASE Busy(p) /\ todo' = [todo EXCEPT ![p] = Tail(@)] /\ Done(p)' = Done(p) + 1
    BY <2>2, Preceded DEF Runs, This, Follow, Before
  <2> QED
    BY <2>1, <2>2
<1>2. \A q \in Proc : q # p => todo'[q] = todo[q] /\ Busy(q)' = Busy(q) /\ This(q)' = This(q)
  BY DEF CreateInv, TypeOK, Busy, This
<1>3. ASSUME NEW q \in Proc, Runs(q, "provide")', ~ found'[q],
             excused'[q] \cap { "moved", "raced" } = { }
      PROVE  fs'[This(q)'.at] = "none"
  <2>1. q # p /\ Runs(q, "provide")
    BY <1>1, <1>2, <1>3 DEF Runs, This
  <2>2. excused[q] \cap { "moved", "raced" } = { } /\ "raced" \notin excused'[q]
    BY <1>3, <2>1
  <2>3. fs[This(q).at] = "none"
    BY <1>3, <2>1, <2>2 DEF CreateInv, RaceInv
  <2>4. HasStore(config) /\ This(q).at = config.variable_store
    BY <2>1, NextStep DEF Runs, This, Fits
  <2> QED
    BY <1>2, <2>1, <2>2, <2>3, <2>4
<1> QED
  BY <1>3 DEF RaceInv

(* What is said of first boots outlives a step after which none is further. *)
LEMMA DraftKept ==
  ASSUME CreateInv, UNCHANGED << config, draftVars, found >>,
         \A q \in Proc : \A do \in { "open", "write", "rename" } :
           Runs(q, do)' /\ (do = "open" \/ ~ found[q]) => Runs(q, do),
         \A q \in Proc : excused[q] \subseteq excused'[q],
         config.machine_identifier_path # None
           => LET id == config.machine_identifier_path
              IN  \/ fs'[id] \in { fs[id], "some" }
                  \/ fs'[id] = "none" /\ \A q \in Proc : "moved" \in excused'[q]
  PROVE  AloneInv' /\ DraftInv'
<1> DEFINE id == config.machine_identifier_path
<1>1. \A q \in Proc : Drafting(q)' => Drafting(q)
  BY DEF Drafting
<1>2. AloneInv'
  <2> SUFFICES ASSUME ~ met' PROVE Alone'
    BY DEF AloneInv
  <2>1. Alone
    BY DEF draftVars, CreateInv, AloneInv
  <2>2. id # None => fs'[id] \in { "none", "some" }
    BY <2>1 DEF Alone
  <2> QED
    BY <1>1, <2>1, <2>2 DEF Alone, draftVars
<1>3. DraftInv'
  <2>1. ASSUME NEW q \in Proc, Drafting(q)', "raced" \notin excused'[q]
        PROVE  tmp' # "none"
    BY <1>1, <2>1 DEF CreateInv, DraftInv, draftVars
  <2>2. ASSUME NEW q \in Proc, Runs(q, "open")', found'[q], "moved" \notin excused'[q]
        PROVE  fs'[id] # "none"
    <3>1. Runs(q, "open") /\ found[q] /\ "moved" \notin excused[q]
      BY <2>2
    <3>2. fs[id] # "none"
      BY <3>1 DEF CreateInv, DraftInv
    <3>3. id # None
      BY <3>1, NextStep DEF Runs, This, Fits
    <3> QED
      BY <2>2, <3>2, <3>3
  <2> QED
    BY <2>1, <2>2 DEF DraftInv
<1> QED
  BY <1>2, <1>3

(* ... as most steps of a create are.                                      *)
LEMMA NoFurther ==
  ASSUME CreateInv, NEW p \in Proc, Busy(p), config' = config, found' = found,
         ScriptInv', todo' = [todo EXCEPT ![p] = Tail(@)], Done(p)' = Done(p) + 1,
         This(p).do # "find", This(p).do \in { "open", "write" } => found[p],
         NEW q \in Proc, NEW do \in { "open", "write", "rename" },
         Runs(q, do)', do = "open" \/ ~ found[q]
  PROVE  Runs(q, do)
<1>1. CASE q = p
  <2>1. Busy(p)' /\ This(p)'.do = do
    BY <1>1 DEF Runs, This
  <2>2. This(p).do = Before(do)
    BY <2>1, Preceded DEF Follow
  <2> QED
    BY <1>1, <2>2 DEF Before
<1>2. CASE q # p
  BY <1>2 DEF CreateInv, TypeOK, Runs, Busy
<1> QED
  BY <1>1, <1>2

(* A boot file or a disk that is missed was moved.                         *)
LEMMA Missed ==
  ASSUME CreateInv, NEW p \in Proc, Busy(p), Late(p), fs[This(p).at] = "none",
         This(p).err \in { "BootFilesNotFound", "DiskNotFound" }
  PROVE  "moved" \in excused[p]
<1>1. This(p).at \in Foreseen(config)
  BY NextStep DEF Fits
<1>2. PICK i \in 1..Done(p) : /\ Script(config)[i].do = "look"
                              /\ Script(config)[i].at = This(p).at
  BY <1>1, Validated
<1> QED
  BY <1>2 DEF CreateInv, LookedInv

(* A create ends with an error that validate's looks do not answer for, or *)
(* with one they do answer for.                                            *)
LEMMA EndStep ==
  ASSUME CreateInv, NEW p \in Proc, Busy(p), This(p).do # "find" \/ todo' = [todo EXCEPT ![p] = << >>],
         UNCHANGED << config, fs, draftVars, found >>,
         todo' = [todo EXCEPT ![p] = << >>],
         excused' \in [Proc -> SUBSET { "moved", "raced", "refused" }],
         \A q \in Proc : excused[q] \subseteq excused'[q],
         NEW e \in Error \cup { "ok" }, NEW l \in BOOLEAN,
         result' \in { result, [result EXCEPT ![p] = [ err |-> e, late |-> l ]] },
         result' # result /\ l /\ e \in { "BootFilesNotFound", "DiskNotFound" }
           => "moved" \in excused[p]
  PROVE  CreateInv'
<1>1. todo' \in [Proc -> Seq(AnyStep)]
  <2>1. << >> \in Seq(AnyStep) /\ todo \in [Proc -> Seq(AnyStep)]
    BY EmptySeq DEF CreateInv, TypeOK
  <2> QED
    BY <2>1
<1>2. \A q \in Proc : todo'[q] \in { todo[q], << >> }
  BY DEF CreateInv, TypeOK
<1>3. /\ \A q \in Proc : Len(todo'[q]) <= Len(ValidateScript(config)) + Len(BuildScript(config))
      /\ ScriptInv' /\ LookedInv'
  BY <1>1, <1>2, Ended
<1>4. RaceInv'
  <2>1. \A q \in Proc : Runs(q, "provide")' => Runs(q, "provide") /\ This(q)' = This(q)
    BY <1>2 DEF Runs, Busy, This
  <2> QED
    BY <2>1 DEF CreateInv, RaceInv
<1>5. TypeOK'
  <2>1. result \in [Proc -> Result] /\ [ err |-> e, late |-> l ] \in Result
    BY DEF CreateInv, TypeOK, Result
  <2>2. result' \in [Proc -> Result]
    BY <2>1
  <2> QED
    BY <1>1, <1>3, <2>2 DEF CreateInv, TypeOK, draftVars
<1>6. ValidateForesees'
  <2>1. ASSUME NEW q \in Proc, result'[q].late,
               result'[q].err \in { "BootFilesNotFound", "DiskNotFound" }
        PROVE  "moved" \in excused'[q]
    <3>1. CASE result'[q] = result[q]
      BY <2>1, <3>1 DEF CreateInv, ValidateForesees
    <3>2. CASE result'[q] # result[q]
      <4>1. q = p /\ result' # result /\ result'[q] = [ err |-> e, late |-> l ]
        BY <3>2 DEF CreateInv, TypeOK
      <4>2. l /\ e \in { "BootFilesNotFound", "DiskNotFound" }
        BY <2>1, <4>1
      <4> QED
        BY <4>1, <4>2
    <3> QED
      BY <3>1, <3>2
  <2> QED
    BY <2>1 DEF ValidateForesees
<1>7. AloneInv' /\ DraftInv'
  <2>1. \A q \in Proc : \A do \in { "open", "write", "rename" } : Runs(q, do)' => Runs(q, do)
    BY <1>2 DEF Runs, Busy
  <2> QED
    BY <2>1, DraftKept
<1> QED
  BY <1>3, <1>4, <1>5, <1>6, <1>7 DEF CreateInv, StoreInv

(* `?` on a step that is neither a look that fails nor a missing file.     *)
LEMMA FailStep ==
  ASSUME CreateInv, NEW p \in Proc, Busy(p), Fail(p), UNCHANGED << config, fs, draftVars, found >>,
         This(p).do # "look" \/ fs[This(p).at] = "none",
         excused' \in [Proc -> SUBSET { "moved", "raced", "refused" }],
         \A q \in Proc : excused[q] \subseteq excused'[q]
  PROVE  CreateInv'
<1>1. This(p).err \in Error \cup { "ok" } /\ Late(p) \in BOOLEAN
  BY NextStep DEF Fits, AnyStep, Late
<1>2. Late(p) /\ This(p).err \in { "BootFilesNotFound", "DiskNotFound" }
        => "moved" \in excused[p]
  BY Missed, NextStep DEF Fits
<1> QED
  BY <1>1, <1>2, EndStep DEF Fail

(* A step of a script that touches no file and finds what it looks for.    *)
LEMMA PlainStep ==
  ASSUME CreateInv, NEW p \in Proc, Busy(p), Advance(p),
         UNCHANGED << config, fs, draftVars, found, excused >>,
         This(p).do # "find", This(p).do \in { "open", "write" } => found[p],
         This(p).do = "look" => fs[This(p).at] # "none"
  PROVE  CreateInv'
<1>1. /\ todo' \in [Proc -> Seq(AnyStep)]
      /\ \A q \in Proc : Len(todo'[q]) <= Len(ValidateScript(config)) + Len(BuildScript(config))
      /\ Done(p)' = Done(p) + 1
      /\ ScriptInv' /\ LookedInv'
  BY Advanced DEF Advance
<1>2. RaceInv'
  BY <1>1, RaceKept DEF Advance
<1>3. TypeOK' /\ ValidateForesees' /\ StoreInv'
  BY <1>1 DEF Advance, CreateInv, TypeOK, ValidateForesees, StoreInv, draftVars
<1>4. AloneInv' /\ DraftInv'
  BY <1>1, NoFurther, DraftKept DEF Advance
<1> QED
  BY <1>1, <1>2, <1>3, <1>4 DEF CreateInv

(* The serial log is opened, and is there from then on.                    *)
LEMMA OpenLogStep ==
  ASSUME CreateInv, NEW p \in Proc, OpenLog(p)
  PROVE  CreateInv'
<1>0. /\ Busy(p) /\ This(p).do = "log" /\ Advance(p)
      /\ fs' = [fs EXCEPT ![This(p).at] = "some"]
      /\ UNCHANGED << config, draftVars, found, excused >>
  BY DEF OpenLog, Runs, This
<1>1. This(p).at = config.serial /\ This(p).at \in Path
  BY <1>0, NextStep, ConfigType DEF Fits
<1>2. HasStore(config) => config.variable_store # This(p).at
  BY <1>1, NextStep, StoreAssumption DEF HasStore
<1>3. \A f \in Path : fs'[f] = IF f = This(p).at THEN "some" ELSE fs[f]
  BY <1>0 DEF CreateInv, TypeOK
<1>4. /\ todo' \in [Proc -> Seq(AnyStep)]
      /\ \A q \in Proc : Len(todo'[q]) <= Len(ValidateScript(config)) + Len(BuildScript(config))
      /\ Done(p)' = Done(p) + 1
      /\ ScriptInv' /\ LookedInv'
  <2>1. /\ todo' = [todo EXCEPT ![p] = Tail(@)] /\ config' = config
        /\ \A f \in Path : fs[f] # "none" => fs'[f] # "none"
        /\ \A q \in Proc : excused[q] \subseteq excused'[q]
        /\ This(p).do # "look"
    BY <1>0, <1>3 DEF Advance
  <2> QED
    BY <1>0, <2>1, Advanced
<1>5. RaceInv'
  <2>1. HasStore(config) => config.variable_store \in Path
    BY NextStep, ConfigType DEF HasStore
  <2>2. HasStore(config) /\ fs[config.variable_store] = "none"
          => fs'[config.variable_store] = "none"
    BY <1>2, <1>3, <2>1
  <2> QED
    BY <1>0, <1>4, <2>2, RaceKept DEF Advance
<1>6. fs' \in [Path -> Content] /\ StoreInv'
  BY <1>0, <1>1, <1>3 DEF CreateInv, TypeOK, StoreInv, Content
<1>7. TypeOK' /\ ValidateForesees'
  BY <1>0, <1>4, <1>6 DEF Advance, CreateInv, TypeOK, ValidateForesees, draftVars
<1>8. AloneInv' /\ DraftInv'
  <2>1. config.machine_identifier_path # None
          => fs'[config.machine_identifier_path]
               \in { fs[config.machine_identifier_path], "some" }
    BY <1>3, NextStep, ConfigType
  <2> QED
    BY <1>0, <1>4, <2>1, NoFurther, DraftKept DEF Advance
<1> QED
  BY <1>4, <1>5, <1>6, <1>7, <1>8 DEF CreateInv

LEMMA FindStep ==
  ASSUME CreateInv, NEW p \in Proc, Find(p)
  PROVE  CreateInv'
<1>1. Busy(p) /\ This(p).do = "find"
  BY DEF Find, Runs, This
<1>2. /\ todo' \in [Proc -> Seq(AnyStep)]
      /\ \A q \in Proc : Len(todo'[q]) <= Len(ValidateScript(config)) + Len(BuildScript(config))
      /\ Done(p)' = Done(p) + 1
      /\ ScriptInv' /\ LookedInv'
  BY <1>1, Advanced DEF Find, Advance
<1>3. ASSUME NEW q \in Proc, Runs(q, "provide")', ~ found'[q],
             excused'[q] \cap { "moved", "raced" } = { }
      PROVE  fs'[This(q)'.at] = "none"
  <2>1. CASE q = p
    <3>2. fs[This(p).at] = "none"
      BY <1>3, <2>1 DEF Find, CreateInv, TypeOK
    <3>3. This(p)'.at = This(p).at
      BY <1>1, <1>2, <1>3, <2>1, Preceded DEF Runs, This, Follow, Find, Advance
    <3> QED
      BY <2>1, <3>2, <3>3 DEF Find
  <2>2. CASE q # p
    <3>1. Runs(q, "provide") /\ This(q)' = This(q) /\ ~ found[q]
      BY <1>3, <2>2 DEF Find, Advance, Runs, Busy, This, CreateInv, TypeOK
    <3> QED
      BY <1>3, <3>1 DEF Find, CreateInv, RaceInv
  <2> QED
    BY <2>1, <2>2
<1>4. RaceInv'
  BY <1>3 DEF RaceInv
<1>5. TypeOK' /\ ValidateForesees' /\ StoreInv'
  BY <1>2 DEF Find, Advance, CreateInv, TypeOK, ValidateForesees, StoreInv, draftVars
<1>6. \A q \in Proc : q # p => /\ Busy(q)' = Busy(q) /\ This(q)' = This(q)
                                /\ found'[q] = found[q]
  BY DEF Find, Advance, Busy, This, CreateInv, TypeOK
<1>7. ~ Drafting(p)'
  BY <1>1, <1>2, Preceded DEF Drafting, Runs, This, Follow, Before, Find, Advance
<1>8. AloneInv'
  BY <1>6, <1>7 DEF CreateInv, AloneInv, Alone, Drafting, Runs, This, Find, draftVars
<1>9. DraftInv'
  <2>1. ASSUME Runs(p, "open")', found'[p]
        PROVE  fs'[config.machine_identifier_path] # "none"
    <3>1. Busy(p)' /\ This(p)'.do = "open"
      BY <2>1 DEF Runs, This
    <3>2. This(p).at = This(p)'.at
      BY <1>1, <1>2, <3>1, Preceded DEF Follow, Find, Advance
    <3>3. This(p)'.at = config.machine_identifier_path
      BY <1>1, <1>2, <3>1, Preceded DEF Find, Advance, Fits, Follow
    <3>4. fs[This(p).at] # "none"
      BY <2>1 DEF Find, CreateInv, TypeOK
    <3> QED
      BY <3>2, <3>3, <3>4 DEF Find
  <2> QED
    BY <1>6, <1>7, <2>1 DEF CreateInv, DraftInv, Drafting, Runs, This, Find, draftVars
<1> QED
  BY <1>2, <1>4, <1>5, <1>8, <1>9 DEF CreateInv

(* The excuses that a step gives are added to those there are.             *)
LEMMA Excused ==
  ASSUME CreateInv, NEW ps, NEW why \in { "moved", "raced", "refused" }, Excuse(ps, why)
  PROVE  /\ excused' \in [Proc -> SUBSET { "moved", "raced", "refused" }]
         /\ \A q \in Proc : excused[q] \subseteq excused'[q]
         /\ \A q \in Proc : q \in ps => why \in excused'[q]
  BY DEF Excuse, CreateInv, TypeOK

LEMMA LookStep ==
  ASSUME CreateInv, NEW p \in Proc, Look(p)
  PROVE  CreateInv'
<1>1. Busy(p) /\ This(p).do \in { "look", "attach" }
  BY DEF Look, Runs, This
<1>2. CASE fs[This(p).at] = "none"
  BY <1>1, <1>2, FailStep DEF Look, CreateInv, TypeOK
<1>3. CASE fs[This(p).at] # "none"
  BY <1>1, <1>3, PlainStep DEF Look
<1> QED
  BY <1>2, <1>3

LEMMA ToUrlStep ==
  ASSUME CreateInv, NEW p \in Proc, ToUrl(p)
  PROVE  CreateInv'
<1>1. Busy(p) /\ This(p).do = "url"
  BY DEF ToUrl, Runs, This
<1>2. CASE Fail(p)
  BY <1>1, <1>2, FailStep DEF ToUrl, CreateInv, TypeOK
<1>3. CASE Advance(p)
  BY <1>1, <1>3, PlainStep DEF ToUrl
<1> QED
  BY <1>2, <1>3 DEF ToUrl

LEMMA SetMacStep ==
  ASSUME CreateInv, NEW p \in Proc, SetMac(p)
  PROVE  CreateInv'
<1>1. Busy(p) /\ This(p).do = "mac"
  BY DEF SetMac, Runs, This
<1>2. CASE Fail(p)
  BY <1>1, <1>2, FailStep DEF SetMac, CreateInv, TypeOK
<1>3. CASE Advance(p)
  BY <1>1, <1>3, PlainStep DEF SetMac
<1> QED
  BY <1>2, <1>3 DEF SetMac

LEMMA LoadStep ==
  ASSUME CreateInv, NEW p \in Proc, Load(p)
  PROVE  CreateInv'
<1>1. Busy(p) /\ This(p).do = "open" /\ found[p]
  BY DEF Load, Runs, This
<1>2. CASE Fail(p)
  BY <1>1, <1>2, FailStep DEF Load, CreateInv, TypeOK
<1>3. CASE Advance(p)
  BY <1>1, <1>3, PlainStep DEF Load
<1> QED
  BY <1>2, <1>3 DEF Load

LEMMA SkipDraftStep ==
  ASSUME CreateInv, NEW p \in Proc, SkipDraft(p)
  PROVE  CreateInv'
<1>1. Busy(p) /\ This(p).do \in { "write", "rename" } /\ found[p]
  BY DEF SkipDraft, Runs, This
<1> QED
  BY <1>1, PlainStep DEF SkipDraft

(* A step of a first boot: what is at the path changes at most.            *)
LEMMA FirstBootStep ==
  ASSUME CreateInv, NEW p \in Proc, Busy(p), Advance(p),
         This(p).do \in { "open", "write", "rename" },
         UNCHANGED << config, found >>,
         tmp' \in { "none", "some" } \cup Broken, file' \in [Proc -> { "none", "tmp", "path" }],
         met' \in BOOLEAN,
         \/ fs' = fs
         \/ \E new \in { "some" } \cup Broken : fs' = [fs EXCEPT ![This(p).at] = new],
         excused' \in [Proc -> SUBSET { "moved", "raced", "refused" }],
         \A q \in Proc : excused[q] \subseteq excused'[q],
         AloneInv', DraftInv'
  PROVE  CreateInv'
<1> DEFINE id == config.machine_identifier_path
<1>1. This(p).at = id /\ id # None /\ id \in Path
  BY NextStep, ConfigType DEF Fits
<1>2. HasStore(config) => config.variable_store # id /\ config.variable_store \in Path
  BY NextStep, StoreAssumption, ConfigType DEF HasStore
<1>3. /\ fs' \in [Path -> Content]
      /\ \A f \in Path : fs'[f] = fs[f] \/ (f = id /\ fs'[f] \in { "some" } \cup Broken)
  <2>1. fs \in [Path -> Content]
    BY DEF CreateInv, TypeOK
  <2>2. CASE fs' = fs
    BY <2>1, <2>2
  <2>3. ASSUME NEW new \in { "some" } \cup Broken, fs' = [fs EXCEPT ![This(p).at] = new]
        PROVE  /\ fs' \in [Path -> Content]
               /\ \A f \in Path : fs'[f] = fs[f] \/ (f = id /\ fs'[f] = new)
    <3>1. new \in Content
      BY DEF Content
    <3> QED
      BY <1>1, <2>1, <2>3, <3>1
  <2> QED
    BY <2>2, <2>3
<1>4. /\ todo' \in [Proc -> Seq(AnyStep)]
      /\ \A q \in Proc : Len(todo'[q]) <= Len(ValidateScript(config)) + Len(BuildScript(config))
      /\ Done(p)' = Done(p) + 1
      /\ ScriptInv' /\ LookedInv'
  <2>1. /\ todo' = [todo EXCEPT ![p] = Tail(@)] /\ config' = config
        /\ \A f \in Path : fs[f] # "none" => fs'[f] # "none"
        /\ This(p).do # "look"
    BY <1>3 DEF Advance, Broken
  <2> QED
    BY <2>1, Advanced
<1>5. RaceInv'
  <2>1. HasStore(config) /\ fs[config.variable_store] = "none"
          => fs'[config.variable_store] = "none"
    BY <1>2, <1>3
  <2> QED
    BY <1>4, <2>1, RaceKept DEF Advance
<1>6. StoreInv'
  BY <1>3 DEF CreateInv, StoreInv, Broken
<1>7. TypeOK' /\ ValidateForesees'
  BY <1>3, <1>4 DEF Advance, CreateInv, TypeOK, ValidateForesees
<1> QED
  BY <1>4, <1>5, <1>6, <1>7 DEF CreateInv

LEMMA OpenDraftStep ==
  ASSUME CreateInv, NEW p \in Proc, OpenDraft(p)
  PROVE  CreateInv'
<1>1. /\ Busy(p) /\ This(p).do = "open" /\ ~ found[p] /\ Advance(p)
      /\ UNCHANGED << config, fs, found, excused >>
      /\ tmp' = "empty" /\ file' = [file EXCEPT ![p] = "tmp"]
      /\ met' = (met \/ \E q \in Proc \ { p } : Drafting(q))
  BY DEF OpenDraft, Runs, This
<1>2. \A q \in Proc : q # p => Busy(q)' = Busy(q) /\ This(q)' = This(q)
  BY <1>1 DEF Advance, Busy, This, CreateInv, TypeOK
<1>3. ~ Runs(p, "rename")' /\ ~ Runs(p, "open")'
  BY <1>1, NotNext DEF Follow, Before
<1>4. AloneInv'
  <2> SUFFICES ASSUME ~ met' PROVE Alone'
    BY DEF AloneInv
  <2>1. Alone /\ \A q \in Proc \ { p } : ~ Drafting(q)
    BY <1>1 DEF CreateInv, AloneInv
  <2>2. \A q \in Proc \ { p } : ~ Drafting(q)'
    BY <1>1, <1>2, <2>1 DEF Drafting, Runs, This
  <2>3. file'[p] = "tmp"
    BY <1>1 DEF CreateInv, TypeOK
  <2> QED
    BY <1>1, <1>3, <2>1, <2>2, <2>3 DEF Alone, Drafting
<1>5. DraftInv'
  BY <1>1, <1>2, <1>3 DEF CreateInv, DraftInv, Runs, This
<1>6. file' \in [Proc -> { "none", "tmp", "path" }] /\ met' \in BOOLEAN
  BY <1>1 DEF CreateInv, TypeOK
<1>7. /\ excused' \in [Proc -> SUBSET { "moved", "raced", "refused" }]
      /\ \A q \in Proc : excused[q] \subseteq excused'[q]
  BY <1>1 DEF CreateInv, TypeOK
<1> QED
  BY <1>1, <1>4, <1>5, <1>6, <1>7, FirstBootStep DEF Broken

LEMMA WriteDraftStep ==
  ASSUME CreateInv, NEW p \in Proc, WriteDraft(p)
  PROVE  CreateInv'
<1> DEFINE id == config.machine_identifier_path
<1>1. /\ Busy(p) /\ This(p).do = "write" /\ ~ found[p] /\ Advance(p)
      /\ UNCHANGED << config, met, found, excused >>
      /\ file' = [file EXCEPT ![p] = "none"]
      /\ Runs(p, "write") /\ Drafting(p)
  BY DEF WriteDraft, Runs, This, Drafting
<1>2. \A q \in Proc : q # p => Busy(q)' = Busy(q) /\ This(q)' = This(q)
  BY <1>1 DEF Advance, Busy, This, CreateInv, TypeOK
<1>3. ~ Runs(p, "write")' /\ ~ Runs(p, "open")'
  BY <1>1, NotNext DEF Follow, Before
<1>4. \A before : Written(p, before) \subseteq { "some", "torn" }
  BY DEF Written
<1>5. /\ tmp' = tmp \/ tmp' \in { "some", "torn" }
      /\ fs' = fs \/ \E new \in { "some", "torn" } : fs' = [fs EXCEPT ![This(p).at] = new]
  BY <1>4 DEF WriteDraft
<1>6. AloneInv'
  <2> SUFFICES ASSUME ~ met' PROVE Alone'
    BY DEF AloneInv
  <2>1. Alone
    BY <1>1 DEF CreateInv, AloneInv
  <2>2. file[p] = "tmp" /\ tmp = "empty" /\ \A q \in Proc \ { p } : ~ Drafting(q)
    BY <1>1, <2>1 DEF Alone
  <2>3. Written(p, tmp) = { "some" }
    BY <2>2 DEF Written, Drafting
  <2>4. tmp' = "some" /\ fs' = fs
    BY <2>2, <2>3 DEF WriteDraft
  <2>5. \A q \in Proc \ { p } : ~ Drafting(q)'
    BY <1>1, <1>2, <2>2 DEF Drafting, Runs, This
  <2> QED
    BY <1>1, <1>3, <2>1, <2>4, <2>5 DEF Alone, Drafting
<1>7. DraftInv'
  <2>1. ASSUME NEW q \in Proc, Drafting(q)', "raced" \notin excused'[q]
        PROVE  tmp' # "none"
    <3>1. Drafting(q)
      BY <1>1, <1>2, <2>1 DEF Drafting, Runs, This
    <3> QED
      BY <1>1, <1>5, <2>1, <3>1 DEF CreateInv, DraftInv
  <2>2. ASSUME NEW q \in Proc, Runs(q, "open")', found'[q], "moved" \notin excused'[q]
        PROVE  fs'[id] # "none"
    <3>1. q # p /\ Runs(q, "open") /\ found[q] /\ fs[id] # "none"
      BY <1>1, <1>2, <1>3, <2>2 DEF Runs, This, CreateInv, DraftInv
    <3>2. This(p).at = id /\ id \in Path
      BY <1>1, NextStep, ConfigType DEF Fits
    <3> QED
      BY <1>5, <3>1, <3>2 DEF CreateInv, TypeOK
  <2> QED
    BY <1>1, <2>1, <2>2 DEF DraftInv
<1>8. /\ tmp' \in { "none", "some" } \cup Broken
      /\ file' \in [Proc -> { "none", "tmp", "path" }] /\ met' \in BOOLEAN
      /\ fs' = fs \/ \E new \in { "some" } \cup Broken : fs' = [fs EXCEPT ![This(p).at] = new]
  BY <1>1, <1>5 DEF CreateInv, TypeOK, Broken
<1>9. /\ excused' \in [Proc -> SUBSET { "moved", "raced", "refused" }]
      /\ \A q \in Proc : excused[q] \subseteq excused'[q]
  BY <1>1 DEF CreateInv, TypeOK
<1> QED
  BY <1>1, <1>6, <1>7, <1>8, <1>9, FirstBootStep

LEMMA RenameDraftStep ==
  ASSUME CreateInv, NEW p \in Proc, RenameDraft(p)
  PROVE  CreateInv'
<1> DEFINE id == config.machine_identifier_path
<1>1. /\ Busy(p) /\ This(p).do = "rename" /\ ~ found[p]
      /\ UNCHANGED << config, met, found >>
      /\ Runs(p, "rename") /\ Drafting(p)
  BY DEF RenameDraft, Runs, This, Drafting
<1>2. CASE Fail(p) /\ UNCHANGED << fs, tmp, file, excused >>
  BY <1>1, <1>2, FailStep DEF CreateInv, TypeOK, draftVars
<1>3. CASE /\ tmp # "none" /\ fs' = [fs EXCEPT ![This(p).at] = tmp] /\ tmp' = "none"
           /\ file' = [q \in Proc |-> IF file[q] = "tmp" THEN "path" ELSE "none"]
           /\ Advance(p)
           /\ Excuse({ q \in Proc \ { p } : Drafting(q) }, "raced")
  <2>1. \A q \in Proc : q # p => Busy(q)' = Busy(q) /\ This(q)' = This(q)
    BY <1>3 DEF Advance, Busy, This, CreateInv, TypeOK
  <2>2. ~ Runs(p, "write")' /\ ~ Runs(p, "open")' /\ ~ Runs(p, "rename")'
    BY <1>1, <1>3, NotNext DEF Follow, Before
  <2>3. /\ excused' \in [Proc -> SUBSET { "moved", "raced", "refused" }]
        /\ \A q \in Proc : excused[q] \subseteq excused'[q]
        /\ \A q \in Proc \ { p } : Drafting(q) => "raced" \in excused'[q]
    BY <1>3, Excused
  <2>4. This(p).at = id /\ id \in Path
    BY <1>1, NextStep, ConfigType DEF Fits
  <2>5. fs'[id] = tmp /\ tmp \in { "some" } \cup Broken
    BY <1>3, <2>4 DEF CreateInv, TypeOK
  <2>6. ~ Drafting(p)' /\ \A q \in Proc \ { p } : Drafting(q)' => Drafting(q)
    BY <1>1, <2>1, <2>2 DEF Drafting, Runs, This
  <2>7. AloneInv'
    <3> SUFFICES ASSUME ~ met' PROVE Alone'
      BY DEF AloneInv
    <3>1. Alone /\ tmp = "some" /\ \A q \in Proc \ { p } : ~ Drafting(q)
      BY <1>1 DEF CreateInv, AloneInv, Alone
    <3>2. \A q \in Proc : ~ Drafting(q)'
      BY <2>6, <3>1
    <3> QED
      BY <1>1, <2>5, <3>1, <3>2 DEF Alone, Drafting
  <2>8. DraftInv'
    BY <1>1, <1>3, <2>3, <2>5, <2>6 DEF DraftInv, Broken
  <2>9. /\ tmp' \in { "none", "some" } \cup Broken
        /\ file' \in [Proc -> { "none", "tmp", "path" }] /\ met' \in BOOLEAN
        /\ \E new \in { "some" } \cup Broken : fs' = [fs EXCEPT ![This(p).at] = new]
    BY <1>1, <1>3, <2>5 DEF CreateInv, TypeOK
  <2> QED
    BY <1>1, <1>3, <2>3, <2>7, <2>8, <2>9, FirstBootStep
<1> QED
  BY <1>2, <1>3 DEF RenameDraft

(* A store that is created is blank, and the others that had found it      *)
(* missing are excused.                                                    *)
LEMMA ProvideStep ==
  ASSUME CreateInv, NEW p \in Proc, Provide(p)
  PROVE  CreateInv'
<1>1. Busy(p) /\ This(p).do = "provide"
  BY DEF Provide, Runs, This
<1>2. CASE found[p] /\ Advance(p) /\ UNCHANGED << fs, excused >>
  BY <1>1, <1>2, PlainStep DEF Provide
<1>3. CASE Fail(p) /\ UNCHANGED << fs, excused >>
  BY <1>1, <1>3, FailStep DEF Provide, CreateInv, TypeOK
<1>4. CASE /\ fs[This(p).at] = "none"
           /\ fs' = [fs EXCEPT ![This(p).at] = "blank"]
           /\ Advance(p)
           /\ Excuse(Proc \ { p }, "raced")
  <2>1. HasStore(config) /\ This(p).at = config.variable_store /\ This(p).at \in Path
    BY <1>1, NextStep, ConfigType DEF Fits, HasStore
  <2>2. /\ excused' \in [Proc -> SUBSET { "moved", "raced", "refused" }]
        /\ \A q \in Proc : excused[q] \subseteq excused'[q]
        /\ \A q \in Proc \ { p } : "raced" \in excused'[q]
    BY <1>4, Excused
  <2>3. \A f \in Path : fs'[f] = IF f = This(p).at THEN "blank" ELSE fs[f]
    BY <1>4 DEF CreateInv, TypeOK
  <2>4. UNCHANGED << config, draftVars, found, result >>
    BY <1>4 DEF Provide, Advance
  <2>5. /\ todo' \in [Proc -> Seq(AnyStep)]
        /\ \A q \in Proc : Len(todo'[q]) <= Len(ValidateScript(config)) + Len(BuildScript(config))
        /\ Done(p)' = Done(p) + 1
        /\ ScriptInv' /\ LookedInv'
    <3>1. /\ todo' = [todo EXCEPT ![p] = Tail(@)]
          /\ \A f \in Path : fs[f] # "none" => fs'[f] # "none"
          /\ This(p).do # "look"
      BY <1>1, <1>4, <2>3 DEF Advance
    <3> QED
      BY <1>1, <2>2, <2>4, <3>1, Advanced
  <2>6. RaceInv'
    BY <1>1, <1>4, <2>2, <2>4, <2>5, RaceKept DEF Advance
  <2>7. fs' \in [Path -> Content] /\ StoreInv'
    BY <1>4, <2>1, <2>3, <2>4 DEF CreateInv, TypeOK, StoreInv, Content, HasStore
  <2>8. TypeOK'
    BY <2>2, <2>4, <2>5, <2>7 DEF CreateInv, TypeOK, draftVars
  <2>9. ValidateForesees'
    BY <2>2, <2>4 DEF CreateInv, ValidateForesees
  <2>10. AloneInv' /\ DraftInv'
    <3> DEFINE id == config.machine_identifier_path
    <3>1. id # None => id \in Path /\ id # This(p).at
      BY <2>1, NextStep, ConfigType, StoreAssumption DEF HasStore
    <3>2. id # None => fs'[id] \in { fs[id], "some" }
      BY <2>3, <3>1
    <3> HIDE DEF id
    <3>3. \A q \in Proc : \A do \in { "open", "write", "rename" } :
            Runs(q, do)' /\ (do = "open" \/ ~ found[q]) => Runs(q, do)
      BY <1>1, <1>4, <2>4, <2>5, NoFurther DEF Advance
    <3> QED
      BY <2>2, <2>4, <3>2, <3>3, DraftKept DEF id
  <2> QED
    BY <2>5, <2>6, <2>7, <2>8, <2>9, <2>10 DEF CreateInv
<1> QED
  BY <1>2, <1>3, <1>4 DEF Provide

LEMMA CompleteStep ==
  ASSUME CreateInv, NEW p \in Proc, Complete(p)
  PROVE  CreateInv'
<1>1. Busy(p)
  BY DEF Complete, Runs
<1>2. /\ todo' = [todo EXCEPT ![p] = << >>]
      /\ result' = [result EXCEPT ![p] = [ err |-> "ok", late |-> TRUE ]]
      /\ UNCHANGED << config, fs, draftVars, found >>
      /\ excused' \in [Proc -> SUBSET { "moved", "raced", "refused" }]
      /\ \A q \in Proc : excused[q] \subseteq excused'[q]
  BY DEF Complete, CreateInv, TypeOK
<1> QED
  BY <1>1, <1>2, EndStep

LEMMA RefuseStep ==
  ASSUME CreateInv, NEW p \in Proc, Refuse(p)
  PROVE  CreateInv'
<1>1. /\ excused' \in [Proc -> SUBSET { "moved", "raced", "refused" }]
      /\ \A q \in Proc : excused[q] \subseteq excused'[q]
  BY Excused DEF Refuse
<1> QED
  BY <1>1, FailStep DEF Refuse

LEMMA ThrowStep ==
  ASSUME CreateInv, NEW p \in Proc, Throw(p)
  PROVE  CreateInv'
<1>1. /\ excused' \in [Proc -> SUBSET { "moved", "raced", "refused" }]
      /\ \A q \in Proc : excused[q] \subseteq excused'[q]
  BY Excused DEF Throw
<1>2. /\ Busy(p) /\ todo' = [todo EXCEPT ![p] = << >>]
      /\ result' = [result EXCEPT ![p] = [ err |-> "Framework", late |-> TRUE ]]
      /\ UNCHANGED << config, fs, draftVars, found >>
  BY DEF Throw
<1>3. "Framework" \in Error
  BY DEF Error
<1> QED
  BY <1>1, <1>2, <1>3, EndStep

LEMMA DieStep ==
  ASSUME CreateInv, NEW p \in Proc, Die(p)
  PROVE  CreateInv'
<1>1. /\ excused' \in [Proc -> SUBSET { "moved", "raced", "refused" }]
      /\ \A q \in Proc : excused[q] \subseteq excused'[q]
  BY DEF Die, CreateInv, TypeOK
<1>2. /\ Busy(p) /\ todo' = [todo EXCEPT ![p] = << >>]
      /\ UNCHANGED << config, fs, draftVars, found, result >>
  BY DEF Die
<1> QED
  BY <1>1, <1>2, EndStep

LEMMA GuestWritesStep ==
  ASSUME CreateInv, NEW p \in Proc, GuestWrites(p)
  PROVE  CreateInv'
<1>1. PICK f \in Path : fs[f] = "blank" /\ fs' = [fs EXCEPT ![f] = "written"]
  BY DEF GuestWrites
<1>2. UNCHANGED << config, draftVars, todo, found, result, excused >>
  BY DEF GuestWrites
<1>3. \A g \in Path : fs'[g] = IF g = f THEN "written" ELSE fs[g]
  BY <1>1 DEF CreateInv, TypeOK
<1>4. ScriptInv' /\ LookedInv'
  <2>1. /\ todo' \in [Proc -> Seq(AnyStep)] /\ \A q \in Proc : todo'[q] \in { todo[q], << >> }
        /\ \A q \in Proc : "moved" \in excused[q] => "moved" \in excused'[q]
        /\ \A g \in Path : fs[g] # "none" => fs'[g] # "none"
    BY <1>2, <1>3 DEF CreateInv, TypeOK
  <2> QED
    BY <1>2, <2>1, Ended
<1>5. RaceInv'
  <2>1. ASSUME NEW q \in Proc, Runs(q, "provide")', ~ found'[q],
               excused'[q] \cap { "moved", "raced" } = { }
        PROVE  fs'[This(q)'.at] = "none"
    <3>1. Runs(q, "provide") /\ ~ found[q] /\ This(q)' = This(q)
      BY <1>2, <2>1 DEF Runs, Busy, This
    <3>2. fs[This(q).at] = "none" /\ This(q).at \in Path
      BY <1>2, <2>1, <3>1, NextStep, ConfigType DEF CreateInv, RaceInv, Runs, This, Fits, HasStore
    <3> QED
      BY <1>1, <1>3, <3>1, <3>2
  <2> QED
    BY <2>1 DEF RaceInv
<1>6. fs' \in [Path -> Content] /\ StoreInv'
  BY <1>1, <1>2, <1>3 DEF CreateInv, TypeOK, StoreInv, Content
<1>7. TypeOK' /\ ValidateForesees'
  BY <1>2, <1>6 DEF CreateInv, TypeOK, ValidateForesees, draftVars
<1>8. AloneInv' /\ DraftInv'
  <2> DEFINE id == config.machine_identifier_path
  <2>1. HasStore(config) /\ f = config.variable_store
    BY <1>1, ConfigurationAssumption DEF CreateInv, StoreInv, HasStore
  <2>2. id # None => id \in Path /\ id # f
    BY <2>1, NextStep, ConfigType, StoreAssumption DEF HasStore
  <2>3. id # None => fs'[id] \in { fs[id], "some" }
    BY <1>3, <2>2
  <2> HIDE DEF id
  <2>4. \A q \in Proc : \A do \in { "open", "write", "rename" } : Runs(q, do)' => Runs(q, do)
    BY <1>2 DEF Runs, Busy
  <2> QED
    BY <1>2, <2>3, <2>4, DraftKept DEF id
<1> QED
  BY <1>4, <1>5, <1>6, <1>7, <1>8 DEF CreateInv

LEMMA MeddleStep ==
  ASSUME CreateInv, NEW f \in Path, Meddle(f)
  PROVE  CreateInv'
<1>1. /\ excused' \in [Proc -> SUBSET { "moved", "raced", "refused" }]
      /\ \A q \in Proc : excused[q] \subseteq excused'[q]
      /\ \A q \in Proc : "moved" \in excused'[q]
  BY Excused DEF Meddle
<1>2. UNCHANGED << config, draftVars, todo, found, result >>
  BY DEF Meddle
<1>3. ScriptInv' /\ LookedInv'
  <2>1. /\ todo' \in [Proc -> Seq(AnyStep)]
        /\ \A q \in Proc : todo'[q] \in { todo[q], << >> }
    BY <1>2 DEF CreateInv, TypeOK
  <2> QED
    BY <1>1, <1>2, <2>1, Ended
<1>4. RaceInv'
  BY <1>1 DEF RaceInv
<1>5. fs' \in [Path -> Content] /\ StoreInv'
  <2>1. \A g \in Path : fs'[g] \in { fs[g], "some", "none" }
    BY DEF Meddle, CreateInv, TypeOK
  <2>2. fs' \in [Path -> Content]
    BY DEF Meddle, CreateInv, TypeOK, Content
  <2> QED
    BY <1>2, <2>1, <2>2 DEF CreateInv, StoreInv
<1>6. TypeOK' /\ ValidateForesees'
  BY <1>1, <1>2, <1>5 DEF CreateInv, TypeOK, ValidateForesees, draftVars
<1>7. AloneInv' /\ DraftInv'
  <2> DEFINE id == config.machine_identifier_path
  <2>1. id # None => fs'[id] \in { fs[id], "some", "none" }
    BY NextStep, ConfigType DEF Meddle, CreateInv, TypeOK
  <2> HIDE DEF id
  <2>2. \A q \in Proc : \A do \in { "open", "write", "rename" } : Runs(q, do)' => Runs(q, do)
    BY <1>2 DEF Runs, Busy
  <2> QED
    BY <1>1, <1>2, <2>1, <2>2, DraftKept DEF id
<1> QED
  BY <1>3, <1>4, <1>5, <1>6, <1>7 DEF CreateInv

LEMMA CreateStep ==
  ASSUME CreateInv, NEW p \in Proc, Create(p)
  PROVE  CreateInv'
<1>1. /\ todo' \in [Proc -> Seq(AnyStep)]
      /\ \A q \in Proc : Len(todo'[q]) <= Len(ValidateScript(config)) + Len(BuildScript(config))
      /\ ScriptInv' /\ LookedInv'
  BY Began
<1>2. \A q \in Proc : q # p => /\ todo'[q] = todo[q] /\ excused'[q] = excused[q]
                                /\ result'[q] = result[q]
  BY DEF Create, CreateInv, TypeOK
<1>3. UNCHANGED << config, fs, draftVars, found >>
  BY DEF Create
<1>4. ASSUME Busy(p)'
      PROVE  This(p)'.do \notin Follow
  <2>1. todo'[p] = Script(config) /\ todo'[p] # << >> /\ todo'[p] \in Seq(AnyStep)
    BY <1>1, <1>4 DEF Create, Script, Busy, CreateInv, TypeOK
  <2>2. 1 \in 1..Len(Script(config)) /\ This(p)' = Script(config)[1]
    BY <2>1 DEF This
  <2>3. Ordered(Script(config))
    BY NextStep, ScriptGood DEF Good
  <2> QED
    BY <2>2, <2>3 DEF Ordered
<1>5. RaceInv'
  <2>1. ASSUME NEW q \in Proc, Runs(q, "provide")', ~ found'[q],
               excused'[q] \cap { "moved", "raced" } = { }
        PROVE  fs'[This(q)'.at] = "none"
    <3>1. CASE q # p
      BY <1>2, <1>3, <2>1, <3>1 DEF CreateInv, RaceInv, Runs, Busy, This
    <3>2. CASE q = p
      BY <1>4, <2>1, <3>2 DEF Runs, This, Follow
    <3> QED
      BY <3>1, <3>2
  <2> QED
    BY <2>1 DEF RaceInv
<1>6. result' \in [Proc -> Result] /\ result'[p].err = "none"
  BY DEF Create, CreateInv, TypeOK, Result
<1>7. TypeOK'
  BY <1>1, <1>3, <1>6 DEF Create, CreateInv, TypeOK, draftVars
<1>8. ValidateForesees'
  BY <1>2, <1>6 DEF CreateInv, ValidateForesees
<1>9. StoreInv'
  BY <1>3 DEF CreateInv, StoreInv
<1>10. AloneInv' /\ DraftInv'
  <2>1. \A do \in { "open", "write", "rename" } : ~ Runs(p, do)' /\ ~ Runs(p, do)
    BY <1>4 DEF Create, Runs, This, Follow
  <2>2. \A q \in Proc : q # p => Busy(q)' = Busy(q) /\ This(q)' = This(q)
    BY <1>2 DEF Busy, This
  <2>3. AloneInv'
    BY <1>3, <2>1, <2>2 DEF CreateInv, AloneInv, Alone, Drafting, Runs, This, draftVars
  <2>4. DraftInv'
    BY <1>2, <1>3, <2>1, <2>2 DEF CreateInv, DraftInv, Drafting, Runs, This, draftVars
  <2> QED
    BY <2>3, <2>4
<1> QED
  BY <1>1, <1>5, <1>7, <1>8, <1>9, <1>10 DEF CreateInv

LEMMA InitCreateInv == Init => CreateInv
<1> SUFFICES ASSUME Init PROVE CreateInv
  OBVIOUS
<1>1. TypeOK
  <2>1. << >> \in Seq(AnyStep) /\ Len(<< >>) = 0
    BY EmptySeq
  <2>2. todo \in [Proc -> Seq(AnyStep)] /\ \A p \in Proc : Len(todo[p]) = 0
    BY <2>1 DEF Init
  <2>3. Len(ValidateScript(config)) \in Nat /\ Len(BuildScript(config)) \in Nat
    BY ValidateGood, BuildGood, LenProperties DEF Init, Good
  <2> QED
    <3>1. /\ config \in Config /\ fs \in [Path -> Content]
          /\ tmp \in { "none", "some" } \cup Broken /\ met \in BOOLEAN
          /\ file \in [Proc -> { "none", "tmp", "path" }]
      BY DEF Init, Content
    <3>2. /\ found \in [Proc -> BOOLEAN] /\ result \in [Proc -> Result]
          /\ excused \in [Proc -> SUBSET { "moved", "raced", "refused" }]
      BY DEF Init, Result
    <3> QED
      BY <2>2, <2>3, <3>1, <3>2 DEF TypeOK
<1>2. \A p \in Proc : ~ Busy(p)
  BY DEF Init, Busy
<1>3. StoreInv
  BY DEF Init, StoreInv
<1>4. ValidateForesees
  BY DEF Init, ValidateForesees
<1>5. AloneInv
  <2>1. config.machine_identifier_path # None
          => fs[config.machine_identifier_path] \in { "none", "some" }
    BY ConfigType DEF Init
  <2> QED
    BY <1>2, <2>1 DEF AloneInv, Alone, Drafting, Runs
<1> QED
  BY <1>1, <1>2, <1>3, <1>4, <1>5
     DEF CreateInv, ScriptInv, LookedInv, RaceInv, DraftInv, Drafting, Runs

LEMMA NextCreateInv ==
  ASSUME CreateInv, [Next]_vars
  PROVE  CreateInv'
<1>1. CASE UNCHANGED vars
  BY <1>1 DEF vars, draftVars, CreateInv, TypeOK, ScriptInv, LookedInv, StoreInv, RaceInv,
              AloneInv, Alone, DraftInv, Drafting, ValidateForesees, Busy, Done, Runs, This
<1>2. ASSUME NEW p \in Proc, Act(p)
      PROVE  CreateInv'
  BY <1>2, CreateStep, LookStep, ToUrlStep, FindStep, LoadStep, OpenDraftStep, WriteDraftStep,
     RenameDraftStep, SkipDraftStep, ProvideStep, SetMacStep, OpenLogStep,
     CompleteStep, RefuseStep, ThrowStep, DieStep, GuestWritesStep DEF Act
<1>3. ASSUME NEW f \in Path, Meddle(f)
      PROVE  CreateInv'
  BY <1>3, MeddleStep
<1> QED
  BY <1>1, <1>2, <1>3 DEF Next

(* An error of a step that nothing came in the way of.                     *)
LEMMA FailsFor ==
  ASSUME CreateInv, NEW p \in Proc, Act(p),
         result'[p] # result[p], result'[p].err \in Error, excused'[p] = { }
  PROVE  \/ \E f \in Inputs(config) : fs[f] = "none"
         \/ config.mac = "invalid"
         \/ NotUtf8 \cap (Inputs(config) \cup Outputs(config)) # { }
         \/ met /\ fs[config.machine_identifier_path] \in Broken
<1>1. ~ (Refuse(p) \/ Throw(p) \/ Die(p) \/ GuestWrites(p))
  <2>1. ~ (Refuse(p) \/ Throw(p))
    BY Excused DEF Refuse, Throw
  <2> QED
    BY <2>1 DEF Die, GuestWrites
<1>2. ~ Create(p) /\ ~ Complete(p)
  BY DEF Create, Complete, CreateInv, TypeOK, Error
<1>3. ~ Advance(p)
  BY DEF Advance
<1>4. CASE Look(p)
  <2>1. Busy(p) /\ This(p).do \in { "look", "attach" } /\ fs[This(p).at] = "none"
    BY <1>3, <1>4 DEF Look, Runs, This
  <2> QED
    BY <2>1, NextStep DEF Fits
<1>5. CASE ToUrl(p)
  <2>1. Busy(p) /\ This(p).do = "url" /\ This(p).at \in NotUtf8
    BY <1>3, <1>5 DEF ToUrl, Runs, This
  <2> QED
    BY <2>1, NextStep DEF Fits
<1>6. CASE Provide(p)
  <2>1. /\ Runs(p, "provide") /\ ~ found[p] /\ excused[p] = { }
        /\ fs[This(p).at] # "none" \/ ~ HasParent
    BY <1>3, <1>6 DEF Provide
  <2>2. fs[This(p).at] = "none"
    BY <2>1 DEF CreateInv, RaceInv
  <2>3. config.kind = "Efi"
    BY <2>1, NextStep DEF Runs, This, Fits, HasStore
  <2> QED
    BY <2>1, <2>2, <2>3 DEF HasParent, Inputs
<1>7. CASE SetMac(p)
  BY <1>3, <1>7 DEF SetMac
<1>8. CASE Load(p)
  <2> DEFINE id == config.machine_identifier_path
  <2>1. /\ Runs(p, "open") /\ found[p] /\ excused[p] = { }
        /\ fs[This(p).at] # "some"
    BY <1>3, <1>8 DEF Load
  <2>2. This(p).at = id /\ id # None /\ id \in Path /\ config \in Config
    BY <2>1, NextStep, ConfigType DEF Runs, This, Fits
  <2>3. fs[id] # "none"
    BY <2>1 DEF CreateInv, DraftInv
  <2>4. fs[id] \notin { "blank", "written" }
    BY <2>2, StoreAssumption DEF CreateInv, StoreInv
  <2>5. fs[id] \in Broken
    BY <2>1, <2>2, <2>3, <2>4 DEF CreateInv, TypeOK, Content
  <2>6. met
    BY <2>2, <2>5 DEF CreateInv, AloneInv, Alone, Broken
  <2> QED
    BY <2>5, <2>6
<1>9. ~ RenameDraft(p)
  <2>1. SUFFICES ASSUME RenameDraft(p) PROVE FALSE
    OBVIOUS
  <2>2. Drafting(p) /\ tmp = "none" /\ excused[p] = { }
    BY <1>3, <2>1 DEF RenameDraft, Drafting
  <2> QED
    BY <2>2 DEF CreateInv, DraftInv
<1> QED
  BY <1>1, <1>2, <1>3, <1>4, <1>5, <1>6, <1>7, <1>8, <1>9
     DEF Act, OpenDraft, WriteDraft, SkipDraft, OpenLog, Find

(* A step changes the result of its own process only.                      *)
LEMMA OwnResult ==
  ASSUME CreateInv, NEW p \in Proc, Act(p), NEW q \in Proc, result'[q] # result[q]
  PROVE  q = p
  BY DEF CreateInv, TypeOK, Act, Create, Look, ToUrl, Find, Load, OpenDraft, WriteDraft,
         RenameDraft, SkipDraft, Provide, SetMac, OpenLog, Complete, Refuse, Throw, Die, GuestWrites, Advance, Fail

LEMMA ReusableStep ==
  ASSUME CreateInv, [Next]_vars, NEW p \in Proc,
         result'[p] # result[p], result'[p].err \in Error, excused'[p] = { }
  PROVE  \/ \E f \in Inputs(config) : fs[f] = "none"
         \/ config.mac = "invalid"
         \/ NotUtf8 \cap (Inputs(config) \cup Outputs(config)) # { }
         \/ met /\ fs[config.machine_identifier_path] \in Broken
<1>1. PICK q \in Proc : Act(q)
  BY DEF Next, Meddle, vars
<1>2. q = p
  BY <1>1, OwnResult
<1> QED
  BY <1>1, <1>2, FailsFor

(* The steps of a create write to the store only where nothing is.         *)
LEMMA StoreKeptStep ==
  ASSUME CreateInv, [Next]_vars, todo' # todo, NEW f \in Path, fs[f] = "written"
  PROVE  fs'[f] = "written"
<1>1. PICK p \in Proc : Act(p)
  BY DEF Next, Meddle, vars
<1>2. ~ GuestWrites(p)
  BY DEF GuestWrites
<1>3. CASE WriteDraft(p) \/ RenameDraft(p) \/ OpenLog(p)
  <2>1. config.kind = "Efi" /\ f = config.variable_store
    BY DEF CreateInv, StoreInv
  <2>2. This(p).at \in { config.machine_identifier_path, config.serial }
    BY <1>3, NextStep DEF WriteDraft, RenameDraft, OpenLog, Runs, This, Fits
  <2>3. This(p).at # f
    BY <2>1, <2>2, NextStep, StoreAssumption, ConfigurationAssumption
  <2>4. fs' = fs \/ \E new : fs' = [fs EXCEPT ![This(p).at] = new]
    BY <1>3 DEF WriteDraft, RenameDraft, OpenLog
  <2> QED
    BY <2>3, <2>4 DEF CreateInv, TypeOK
<1>4. CASE Provide(p)
  BY <1>4 DEF Provide, CreateInv, TypeOK
<1>5. CASE fs' = fs
  BY <1>5
<1> QED
  BY <1>1, <1>2, <1>3, <1>4, <1>5
     DEF Act, Create, Look, ToUrl, Find, Load, OpenDraft, SkipDraft, SetMac, Complete,
         Refuse, Throw, Die

-----------------------------------------------------------------------------
(* The theorems.                                                           *)

(* The inductive invariant holds of every reachable state, whatever the    *)
(* configuration, however many processes run it and whatever other         *)
(* programs do to the files (VmHandle::create, build_vz_config).           *)
THEOREM CreateInvariance == Spec => []CreateInv
<1>1. CreateInv /\ [Next]_vars => CreateInv'
  BY NextCreateInv
<1> QED
  BY InitCreateInv, <1>1, PTL DEF Spec

(* Type correctness: a create never has more steps before it than validate *)
(* and build_vz_config have together, and none it does not consist of.     *)
THEOREM CreateTypeCorrect == Spec => []TypeOK
<1>1. CreateInv => TypeOK
  BY DEF CreateInv
<1> QED
  BY CreateInvariance, <1>1, PTL

(* The constructors miss a boot file or a disk that validate has found     *)
(* only if it was moved meanwhile (validate, setup_boot_loader,            *)
(* create_storage_device).                                                 *)
THEOREM Foresees == Spec => []ValidateForesees
<1>1. CreateInv => ValidateForesees
  BY DEF CreateInv
<1> QED
  BY CreateInvariance, <1>1, PTL

(* What a create left behind when it failed or died makes no later one     *)
(* fail, unless two first boots have been at the temporary file of the     *)
(* identifier at once and left a broken one (initVariableStore,            *)
(* load_or_create_machine_identifier, the append of the serial log).       *)
THEOREM Reusable == Spec => LeftoversAreReusable
<1>1. CreateInv /\ [Next]_vars
        => [\A p \in Proc :
              result'[p] # result[p] /\ result'[p].err \in Error /\ excused'[p] = { }
                => \/ \E f \in Inputs(config) : fs[f] = "none"
                   \/ config.mac = "invalid"
                   \/ NotUtf8 \cap (Inputs(config) \cup Outputs(config)) # { }
                   \/ met /\ fs[config.machine_identifier_path] \in Broken]_vars
  BY ReusableStep
<1> QED
  BY CreateInvariance, <1>1, PTL DEF Spec, LeftoversAreReusable

(* No step of any create empties a variable store that a guest has used    *)
(* (initCreatingVariableStoreAtURL without the option to overwrite).       *)
THEOREM StoreKept == Spec => StoreIsNeverReset
<1>1. CreateInv /\ [Next]_vars
        => [\A f \in Path : todo' # todo /\ fs[f] = "written" => fs'[f] = "written"]_vars
  BY StoreKeptStep
<1> QED
  BY CreateInvariance, <1>1, PTL DEF Spec, StoreIsNeverReset
=============================================================================
