# A verification project for CBuild-ng

CBuild-ng is a build system: it takes a tree of packages with `#DEPS` lines in
their recipes, generates a Kconfig and a makefile (`auto.mk`), and lets GNU make
fetch, compile, cache and install the packages into sysroots. This directory
holds TLA+ models of the parts whose correctness depends on order, on what other
processes do and on what a failed run leaves behind; TLC runs over small
instances of them; and TLAPS proofs of what matters most for every instance.
All paths are relative to the repository's root.

## 1. Inventory

Each part with its state, its operations, what is hard about it and what makes
it correct. "Builder" is one build directory (one SOC, one `WORKDIR` for each
package); several builders share `ENV_DOWN_DIR` and `ENV_CACHE_DIR`.

| part | source | state | operations | status |
|---|---|---|---|---|
| build cache | `scripts/bin/process_cache.sh`, targets of `scripts/core/inc.rule.mk` | cache files (shared); `<package>-checksum`, `-match`, `-force`, install directory and its flag (per builder) | check, pull, push, setforce, set1force, unsetforce, setdev, unsetdev | BuildCache; keys of several packages: CacheChain |
| package fetching | `scripts/bin/fetch_package.sh`, `do_fetch` of `inc.rule.mk` | download, archive and checksum file in `ENV_DOWN_DIR` (shared, under flock); unpacked tree and its checksum copy (per builder) | fetch from the mirror or the URLs, clone, update, pack, unpack | FetchPackage |
| build chain generator | `scripts/bin/gen_build_chain.py` | the lists of every item, the ordered chain, `auto.mk`, Kconfig | parse, check_item, check_circular_dep, gen_make, gen_kconfig | BuildChain (no native variants, no virtual packages) |
| parallel make | `auto.mk`, `Makefile` | which target is done, the global sysroot, each private sysroot | build, psysroot, install, finally, all_targets | BuildChain |
| build rules of a package | `scripts/core/inc.{rule,app,mod}.mk` | `WORKDIR` | fetch, patch, configure, build, install, clean | what touches the cache is in BuildCache |
| progress monitor | `scripts/progress/progress.c`, `socket_api.c` | the log, the port file, the list of live packages, the counters | fork, select over two pipes and a socket, begin/end/total/stop | Progress |
| sysroot assembly | `scripts/bin/process_sysroot.sh` | files of a sysroot, hard links, symbolic links | install, link, release, replace | which packages are in it: BuildChain; files: planned |
| execld loader | `system/execld/src/execld.c` | the configuration of one run | parse, choose loader and library path, exec | planned |
| package information, dependency images | `gen_package_infos.py`, `gen_depends_image.sh` | none that lasts | traversals of finished files | not modelled |
| standalone packages | `gen_cpk_package.py`, `gen_cpk_binary.sh` | a directory being rewritten | copy, patchelf, tar | not modelled |
| machine, mirror, environment | `process_machine.sh`, `process_mirror.py`, `build.env` | none | table look-ups | constants of the models |
| patches, recipe conversion | `exec_patch.sh`, `convert_recipe.py`, `meson_cross.sh` | a list of applied patches | patch, unpatch, convert | not modelled |
| yocto mode | `yocto.env`, parts of `gen_build_chain.py` | recipe lists | bitbake schedules | not modelled |
| toolchain | `scripts/toolchain/Makefile` | fixed sequence of stages | build, install | not modelled |
| kconfig: database | `scripts/kconfig/parser/{expr,symbol,menu}.c`, `autogen/parser.y` | the tree of entries, the properties, user values and cached values of the symbols | parse a statement, finalize the tree, search for recursion, compute a value, set a value | KconfigExpr, KconfigTree, KconfigMenu, KconfigValue, KconfigSymbol, KconfigSession, Kconfig (no hex and string symbols) |
| kconfig: configuration files | `parser/confdata.c` | `.config`, `.config.old`, `auto.conf`, `autoconf.h`, the dependency files; the change flag | read, write, write the minimal configuration, synchronize | KconfigData, KconfigFiles |
| kconfig: conf and mconf | `conf.c`, `mconf.c` | where the program is, the file it saves to | every mode of conf; the keys, load, save and exit of mconf | Kconfig |
| kconfig: lexer, preprocessor, dialogs | `autogen/lexer.l`, `parser/preprocess.c`, `lxdialog` | none that outlives a call | text to tokens, macros, curses windows | not modelled |
| recipes, boards, examples | `oss`, `board`, `system`, `examples` | | | inputs |

How they interact. The Makefile lets `gen_build_chain.py` write `auto.mk` and
the Kconfig; `inc.conf.mk` runs `mconf` or `conf` on it, one program after another
on the same `.config`, and `conf --syncconfig` makes `auto.conf` (included by make),
`autoconf.h` and the dependency files of it; the user's selection becomes `CONFIG_*`
variables; make (below
`progress`) runs one target for each package, and each of them a make on its own
with `inc.rule.mk`, which calls `process_cache.sh` (check; then pull, or a build
with `fetch_package.sh` and then push) and `process_sysroot.sh`. Builders meet
only in files: the cache without any lock, the downloads under
`lock/<package>.lock`, the global sysroot under a lock of its own.

What is hard, in the order in which it is modelled:

1. *Unlocked shared cache.* Between check and pull another builder may remove
   the cache file; two pushes may overlap; a download writes the final name
   directly. Correct: whatever is in a cache file, or is unpacked from one, is
   the image of the key in its name; repeated builds converge to the last edit.
2. *Crashes in the middle of a fetch.* Half downloads, half clones, half trees
   and checksum files of the tree before. Correct: a complete run hands on the
   wanted tree, and no debris makes later runs fail forever.
3. *Order of a parallel build.* Optional, conditional and alternative
   dependencies go through three programs before make sees them. Correct: a
   package is compiled when all it needs is built and in the sysroot it sees.
4. *The monitor's three channels* (two pipes and datagrams, a port file that
   another make may replace). Correct: success means that make succeeded, the
   log is complete, the monitor ends.
5. *A configuration through many hands.* The tree is rewritten several times
   (dependencies handed down, simplified, submenus made, choices flattened); values
   are cached; user values, defaults, `select`, `imply`, ranges and choices meet;
   the modes of two programs change the same file, and each can fail or die while saving.
   Correct: an entry depends on what was written; no cached value is out of date;
   what is written is read back; no change is lost without a question; make compiles
   again what has changed.
6. *Keys over several packages*: the key of a package is made of the names of other
   packages' cache files, as they are at that moment, and passes over what has no
   cache. Correct: what comes from the cache is what a build would give now, and
   nothing is built that is in the cache.
7. *Files of a sysroot* (hard links, files of an older version that stay).

`PROJECT.json` lists each hazard at its line.

## 2. Modules

| module | models | extends / is extended by |
|---|---|---|
| `BuildCache` | cache of one package shared by builders | |
| `BuildCacheProofs` | its theorems | BuildCache |
| `PlainMake` | a make that builds every package (abstract) | |
| `CacheChain` | caches of packages that depend on each other, one builder; implements PlainMake | |
| `CacheChainProofs` | its theorems | CacheChain |
| `FetchPackage` | one package's sources, shared by builders | |
| `FetchPackageProofs` | its theorems | FetchPackage |
| `BuildChain` | from `#DEPS` lines to the end of `make -j` | |
| `BuildChainProofs` | its theorems | BuildChain |
| `Progress` | the monitor around one make, and that make | |
| `ProgressProofs` | theorems about the log, the exit status, the list of live packages and the bar | Progress |
| `InductionLemmas` | induction over numbers and finite sets; lists that are joined, least and greatest numbers | used by BuildChainProofs, ProgressProofs, KconfigValueProofs |
| `KconfigJoin` | expressions, and the rules that make one of two operands | |
| `KconfigExpr` | building, simplifying and comparing expressions | KconfigJoin |
| `KconfigTree` | what a menu database says of its names, for any expressions | KconfigJoin |
| `KconfigMenu` | statements, the menu tree, finalizing, recursion | KconfigExpr, KconfigTree |
| `KconfigValue` | the values of symbols, choices, setters, for any expressions | KconfigTree |
| `KconfigSession` | what conf and mconf do to the values, whatever is read and answered (abstract) | KconfigValue |
| `KconfigValueProofs` | theorems about the values | KconfigSession |
| `KconfigSymbol` | what expressions are worth, visible menus | KconfigMenu, KconfigValue |
| `KconfigData` | reading and the modes of conf; the texts of the configuration files | KconfigSymbol |
| `ConfigStore` | what a saved configuration promises (abstract) | |
| `KconfigFiles` | the system calls of a save; implements ConfigStore | |
| `KconfigProgram` | conf and mconf for any meaning of a configuration (abstract) | KconfigFiles |
| `KconfigProofs` | theorems about saving, and about the joining rules | KconfigProgram, KconfigJoin |
| `Kconfig` | conf, mconf, and make starting one after another; implements KconfigProgram and KconfigSession | KconfigData, KconfigFiles, KconfigSession |
| `MC...` | definitions of the instances for TLC | the module named |

Operators whose comment begins "Error variant" are no part of a specification:
each is a definition changed the way a bug would change it. `PROJECT.json`
("mutants") says which property notices it.

### BuildCache

One package, several builders. A builder's hashed inputs (recipe, patches,
source, appended configuration) are its `inputs`, a version; a key is a version
and the stamp of the force file that went into the md5 (0 when none did). An
image is the version it was compiled from and whether it is whole, or else who left a part of it
(a compilation, a download, the `tar` of a push or of a pull). `pc` is where
the builder's make is:

    idle --Check--> lookup --LocalHit-------------------> checked
                      |  \--Miss-----------------------/
                      \--MirrorHit-> mirror -> wget -> wgetting -WgetDone-/
    checked --(match)-> PullKeep | PullClear -> untar -> flag -> finish
            --(none)--> compile -> push -> pdel -> mv -> finish -> idle

Each step is a command of the shell that other builders can see: the test for a
local file, `del_cache`, `wget -O` opening and completing the file, `rm`, `tar`
and the `mv` of a push. `Fail` is a failing command whose status is looked at, or a killed build,
at any point. The script does not look at the status of `tar` and `mv` (no `set -e`): on a full disk
`PushShort` moves a part of the archive to the final name, `PushLost` moves nothing, `UntarShort`
leaves a part of the image or none, and each of them goes on to a flag and an exit status of 0. `Edit` changes the inputs, `SetForce` covers setforce and set1force,
`UnsetForce`, `SetDev`, `UnsetDev` and `DistClean` are the targets of that name.

Abstracted: the md5 is taken to be injective; the files that the script writes with `echo` or `md5sum`
(checksum, status, flag) are always written, also when the disk is full; the unpacking of a `tar` is one
step (the install directory is private to the builder); configure, compile and
install are one step that reads the source; other mirrors' contents do not
change. `process_cache.sh` computes the key from other packages' keys too: here
that is a part of the version, and CacheChain looks into it.

### CacheChain

`make all_targets` over packages that depend on each other. What BuildCache takes in
small steps is one step here (`Check`, `Compile`, `Push`, `Pull`), and there is one builder;
in turn a version is taken apart: a key is a package, the version of its own inputs
and the keys of others, an image the same with the images it was compiled against
(`Made`). `Visited` is the walk of `get_depend_checksum_auto`: it stops at a package
that has a cache file and goes on behind one that has none. `mode` is what the recipe
says of the cache: `auto` (`CACHE_BUILD = y`), `set` (with `CACHE_DEPENDS`), `off`, and
`fixed` (also without a cache, of a release that nobody edits). The force file, the mirror and
CACHE_STATUS are in BuildCache only. A failing build leaves the old install directory, none, or
what a failing `make install`, `replace` or `append` had made of the new one (`Part`), beside the old flag.
When the edit is taken back, the key matches again and `pull_cache` keeps that part (`process_cache.sh:501`, 519).
`kept` remembers of which packages this has happened. From then on nothing is said of them and of what depends on
them (`Whole`): a dependent is built against the part and pushed under the key of a good image, so that even
`make distclean` of the package does not mend it.

    wait --Check--> pull --Pull------------------> done
              \---> compile --Compile--> push --Push--/      compile --> failed

`Covers` says for which packages a key can be enough: a package that names
`CACHE_DEPENDS` has no key of another package in its checksum (`process_cache.sh:366`
loops over the word `depends`), and an edited package without a cache has no key at all.

What all this is for is said by `PlainMake`: a make that knows no cache and builds every package
after those it depends on. `CacheIsTransparent` maps a done rule to a built package and its install
directory to the image, and says it only of packages that are `claimed`, those a key can cover (and no part is
kept of, as above: a build may drop claims); the others have some image.

### FetchPackage

One package and its lock. A tree is a revision and whether it is whole; `down`
is `ENV_DOWN_DIR/<package>` (the archive or the repository), `pack` the archives
of a git package by the revision in their name, `sum` the checksum file beside
it, `src` and `dst` the unpacked tree and its copy of the checksum. The actions
follow the script from top to bottom: `Start` (flock), the reuse of what is there,
the mirror, the URL list and md5, clone and checkout, update and pull, pack,
checksum, unpack. Failing commands and kills draw on one budget, `MaxFaults`.
`Commit`, `EditRecipe`, `DistClean` and `RemoveDown` are the world outside.
`tar` stands for `zip` too; svn packages are not modelled (section 5).

Some failures the script cannot notice. `CopyFails`: `cp -rfp` of a repository leaves a part of the
tree, and the checksum is copied all the same. `PackFails`: `tar -zcf` leaves a part of an archive,
which `tar -xf` notices if it is ever unpacked (`ReuseFails`, `Refetch`). The others are checked and end or
redirect the run. Three history variables record what the script has no record of:

* `cut`: builders whose tree was copied in part, until the tree is removed;
* `halved`: what `checksrc` was when a run was killed that was removing the builder's tree. `rm -rf
  tree checkdst` begins with the tree, so the part that is left stands beside the old `checkdst`. As long as
  `checksrc` is the one the tree was removed for, the next run removes the rest; when the package goes back to
  the old revision first, the part is taken as complete (the code would be right if it removed `checkdst` first);
* `astray`: a run was killed between `git pull` and the removal of the checksum file, or while a
  repository was unpacked again from its archive: `checksrc` is then that of another state of the repository.

`UnpackedWhole` and `HandsOnWanted` name these exceptions, and hold in all other histories.

### BuildChain

`Parse` is `__set_item_deps` over tokens (`x`, `?x`, `x@cond`, `x|y`, `&&x|y`),
`CheckItem` is `check_item`, `Round`, `FinallyRound`, `Circular` and `Ordered`
are `check_circular_dep` (in `debug_mode`), `Configure` is a selection that
Kconfig accepts with the `<package>-deps` that `gen_make` writes for it, and
`Begin`, `Populate`, `Compile`, `Install` and `EndMake` are the recipes of
`auto.mk` as make runs them. `acount` counts names with repetitions, as the
lists do, and `Hits` subtracts once for each list, as the code does. A name that no recipe
provides is a member of `Unknown`, and `Junk` is the text of finding 3. GNU make is
external: it starts a recipe when its prerequisites are done and a job is free,
starts nothing new after a failure, and drops an edge of a circle (stage
`dropped`, where the model stops). Kconfig is external here (the module of that name
models it): its selections satisfy
`depends on` and `select`.

### Progress

Two processes. `monitor` is where the parent (`process_handler`, then the rest of
`main`) is, `child` where make is:

    socket -> port -> logdir -> select -> out -> err -> sock -> select ... -> close -> wait
                                   \--(a second without news, log/port lost)--/
    sleep -> init -> build -> stop -> done
                 \-------\-> error -> failed        (killed from anywhere)

`ready` is what `select` has found: each turn of the loop works on that snapshot,
stdout first, then stderr, then one datagram, and a datagram that arrives
meanwhile waits for the next turn. `port` is the content of `log/port` (`none`,
`empty` between the truncation and the write, `old` from the last run, `own`, or
`other` of a second make), and `mport` what make has read when it parsed its
makefiles. `queue` holds the datagrams, `dropped` says that one found the
socket's buffer full; datagrams to a closed or foreign port vanish. `pipe`
counts unread chunks. `total`, `finished` and `live` are the bar. The actions of
the child are the lines of the Makefile and of `auto.mk` that run `progress`
with a port, and the output of the recipes.

The outside interferes once (`meddled`): a file or socket that cannot be opened,
a signal to make, another make that takes over `log/port`, a `make clean` that
removes it, or a stop that another `%-pkg` sends to this monitor. A `straggler`
is a process that a recipe has left running with its stdout; it writes nothing.
Whether make dies of SIGPIPE or fails with EPIPE when the monitor has left is
nondeterministic. Not modelled: the drawing of the bar, the time stamps, the names of
log files, the TCP part of `socket_api.c`, which nothing calls.

### Kconfig

Modules in the layers of the C files. An expression is a tuple (`<<"sym", s>>`,
`<<"not", e>>`, `<<"and", e, f>>`, ...); hash-consing in `expr_lookup` makes equal
expressions the same object, which equality of tuples gives for nothing. A
*database* `db` is a record: `menu` (the entries by number, 0 is `rootmenu`), `kids`
and `parent`, `prop` (the properties by number), the type, select and imply
expressions of each symbol, the members of each choice. A statement of the grammar
is a tuple with its options; `Statement` does what the actions of `parser.y` do
with it. `Finalize` is `menu_finalize()`: dependencies are handed down, simplified
and joined to the prompts and properties, selected symbols get their reverse
dependencies, entries after a symbol that depend on it move below it, and `if`
blocks are flattened. `Recursive` is `sym_check_deps()` with the marks it leaves.

The state of the symbols is `u`: the user's values, the order of preference in each
choice, and what `sym_calc_value()` has cached (`curr`, visibility, `dir`, `rev`).
`sym_clear_all_valid()` makes the next look at a symbol compute it again; `Recomputed`
computes all of them at once, in the order of what each needs. Where a setter leaves the caches
alone, the model does too.

`Kconfig` is a program at a time. `phase`:

    parse -> check -> failed
               \-> start -> mode --------------> write -> save -> exit -> start ...
                       \-> askall -> ask ------/          ^
                       \-> menu (keys, load, save) ------/

A project is the input: the statements, the contents `.config` may have, the
programs that are started, and how many key presses, programs and deaths there
are. In oldconfig and syncconfig the order of the questions is left open (conf goes
through the menu in passes); the answers are all that are accepted, those that are
refused leave the state as it is. `missed` and `short` are history: the last Load of mconf named no
file; the files whose last save lost a part of the text.

`KconfigFiles` has one action for each call that others can see: the closing of the temporary file with the comparison
that follows (`Closed`), `rename(name, name.old)`, `rename(tmp, name)`, each
dependency file that `conf_touch_deps()` touches, the renames of the header and of
`auto.conf`. A call can fail, the program can die between two, and on a full disk the temporary file can hold
less than the text: `conf_write()` asks neither `fprintf()` nor `fclose()` (`confdata.c:855-906`), so that
`FallShort` goes on like `Compare` with `temp`, what has reached the file, instead of `text`, to the same success.
`__conf_write_autoconf()` asks `ferror()`; its short writes are failing calls. In the run a text is cut between two
lines (`Parts`); in KconfigProgram and in the proofs `temp` is any other text.
`ConfigStore` says what a user may expect of all this: one stored text, replaced at one moment by what has
`reached` the disk, which is the text being saved unless a write has fallen short, and "saved" reported only
when what has reached the disk is the stored text.

`Build` is a make that compiles: with the header that is there, whatever is older than its dependency files,
and then nothing is `touched` any more. No rule looks at `auto.conf`: `sync_config_header` (`inc.conf.mk:36-47`) starts
conf only when there is no header or `.config` is newer than it by a whole second, and a recipe that does not
call it just compiles. So a make may come after a sync that died between the header and `auto.conf`; the symbols it
compiles then are `early`. Objects that include the header as a whole are always older than a new header, and need no dependency files.

`KconfigProgram` is what is left of the programs when nothing is known of menus and
symbols: there are `values`, which a step may change to any others, a `Text` for them,
the change flag, the file name of mconf, and a save that goes on step by step. It keeps
just what decides whether a change is lost: which steps set or clear the flag, and which
leave the text as it is. `Kconfig` implements it with `values <- <<db, u>>` and
`Text <- WrittenText`, the text that `conf_write()` makes of them.

`KconfigTree` and `KconfigValue` are the parts of `menu.c` and `symbol.c` that look at properties
and values and need no recursion; an expression is opaque there: `IsExpr`, `NamesIn`, `Eval` and
`EntriesBelow` are constants, which a `.cfg` gives the walks over trees of KconfigExpr, KconfigSymbol
and KconfigMenu. `KconfigSession` is the other abstraction of the programs: the files are gone, the database
and the symbols stay. `Regular` lists what is used of the database: its names
in an order in which a value comes after what it reads (`InOrderOfReading`), the members of a choice in its menu, in its list
and around them (`ChoicesHaveMembers`), and so on. The parser enforces most of it, but not all: a choice default that is no
member is only a warning (`menu.c:256-263`), that the members are alike (`MembersAreAlike`) and that a
symbol which takes over a transitional value has a prompt without a condition (`TakersAreShown`) nothing checks; what the code
does with other texts is in section 5. `HandedDown` says that no property is active further than the dependencies
of its symbol. A step computes all values anew (`ComputeAnew`, `StartOver`), or leaves the caches alone since
the symbol or the choice that is set keeps its value (`SetSame`, `ChooseSame`). What is set
in a step is left open, as long as it is `Settable`. `Kconfig` implements it (`SessionImplemented`).

`KconfigJoin` is the part of `expr.c` that needs no recursion: `expr_join_or()`,
`expr_join_and()`, the rewriting of a comparison of a bool symbol and of a negated comparison. `KconfigExpr`
uses it for the eliminations, which walk over the trees.

## 3. Runs

| run | instance | distinct states | asks |
|---|---|---|---|
| `cache_shared` | 2 builders, 2 versions, 1 on the mirror, 1 force stamp, failures, full disk | 2 625 945 (symmetry) | is a cache file, or an unpacked image, ever that of another key, or lacking more than its own download or tar left out? |
| `cache_alone` | 1 builder, 3 versions, 1 on the mirror, 2 stamps, no failures | 1 189 | does a complete make hand on the image of its key; do repeated makes converge to the last edit? |
| `cache_disturbed` | 1 builder, 3 versions, failures, full disk, edits during builds, development mode | 429 315 | at most one cache file? does a match outlive its file? |
| `cache_stale` | 2 builders, 2 versions | violation | finding 1 |
| `cache_torn` | 1 builder, 2 versions, failures | violation | finding 2 |
| `cache_chain` | 3 packages, 2 graphs, 6 ways to use the cache, 2 versions each, parts of one package, no failure after one is kept | 1 407 264 | is what comes from the cache what a build would give; is anything built that is in the cache? |
| `fetch` | 2 builders, 2 revisions, 2 URLs, 2 faults, or 1 fault and a commit | 446 258 | whole, wanted and rightly named trees; do every builder's runs end well again? |
| `chain` | 3 packages, 2 jobs, all lines of `MCBuildChain` | 833 248 | lists, circles, order of the build, its end |
| `chain_select` | the same with `&&b\|c` | violation | finding 3 |
| `progress` | 2 packages, pipes and reads of 2 chunks, 3 datagrams, 3 writes | 2 143 538 | is the log complete, the bar right, success real; does the monitor end? |
| `kconfig` | 82 projects (below) | 109 799 | dependencies, values, choices, what is written and read back, what is lost, what make compiles again, do the programs end? |
| `kconfig_load` | 1 project, mconf with 2 key presses | violation | finding 4 |

Why the bounds are enough. Two builders: every race of the cache and of the
download is between one that uses a file and one that replaces it; a third
would only repeat the second (and the theorems of BuildCache hold for any
number). Two versions are "mine" and "the other one", and three let one builder
go back to a version whose image is somewhere while another one is published.
One or two stamps give a forced key beside the plain one, and a second forced
key. Two faults: one to leave debris and one to hit the run that finds it; `MCFetchPackage`
lets a commit take the place of one of them (the theorems of FetchPackage hold for any
number), and while a script runs only commits come from outside: it reads neither the recipe nor
another builder's `WORKDIR`, so an edit or a distclean then is one before its next `Start`. In `cache_chain` a chain and a fork: a package in the middle with each way to use
the cache, so that a key has to pass over it, and two dependencies of which one may be covered; the versions are symmetric, and there is a part of at most
one package at a time, no build failing any more once a pull has kept one (`OnePart`; the theorems have no such bound). Three
packages: a dependency of a dependency, an alternative, and a package with
`finally` beside two ordinary ones; two jobs: two packages at once while a third
waits. `MaxStamp`, `MaxRev`, `MaxFaults` and `NumUrls` bound counters that are
unbounded in reality (`NumUrls` is a real list). In Progress a pipe and a read
have the same size as in the code (65536 bytes each, here 2 chunks), three
writes fill a pipe and make the next writer wait, the six datagrams of two
packages overflow a socket for three, and one interference of the outside meets
every step of both processes; two of them would only add pairs of causes for
the same exits.

The projects of `kconfig`: 64 put every pair of eight dependencies (with `!`, `&&`,
`||`, `=`, `!=` and `m`) on a block and on an entry in it, for all values of a bool and a
tristate symbol: a simplification joins two expressions, so pairs reach each of its
rules. 13 texts are wrong in one way each, or nearly (a cycle through select,
through imply, through a choice, and none). One has what tristates can meet: an
automatic submenu, select, imply, a range, a menu with `visible if`; one a choice of three, a
symbol that depends on a member and a transitional symbol; each with all modes of conf
and old files that name unknown symbols, give a symbol twice or contradict each
other, and again with two keys in mconf, the most after which something new can
come. In the last one three programs run on the same files with two edits, one
failing call, short write or death, and make at any time. One is enough: a second failure would meet
files that are those of some other first one.

The type invariants of BuildCache, FetchPackage, BuildChain, Progress and CacheChain are in no run: they are
proved (section 4; that of CacheChain as a part of `ChainInv`).

Why features are split over runs: `CacheSound` is not claimed when a source is
edited while it is compiled (`live`) or in development mode (`dev`), where the
key does not cover the source by design; `UsedIsMatched` is not claimed for
builders that share a cache, nor after a kill (findings 1 and 2).

*Fairness.* `BuildCache`: weak fairness of each builder's make, for which the
operating system's scheduler is enough; a make that has ended is started again
("repeated makes converge" is a claim about repeated makes). No fairness for
edits or failures. `FetchPackage`: weak fairness of a running script; strong
fairness of `Start`, since flock lets every waiter in when the holders keep
releasing it, and a failed build is started again. Faults are finitely many
by their bound. `BuildChain`: weak fairness of the next-state relation as a
whole: the programs run on while there is something to do. `Progress`: weak
fairness of the parent and of make with its recipes, two processes that the
scheduler lets run; none for the outside. `Kconfig`: a program that has something to
do goes on (`[]<>~Working \/ []<><<Working>>_vars`, which is weak fairness of its steps with
the enabling condition written out), and who is asked gives an accepted answer in the end, where
there is one; nobody has to press a key in mconf, start the next program or run make.

*Deadlock* is checked in all runs but those of `BuildChain`, `Progress` and
`Kconfig`, whose programs end; that they end well are the properties `Completes`,
`MonitorEnds` and `ProgramEnds`.

What the runs show, beside that the properties hold:

* `CacheSound` and `UnpackedIsKeyed`: the missing lock is harmless for what the
  files contain, because a push renames its own archive and a pull names its key.
  A pull can still fail, or leave an empty install directory with its flag,
  when the file goes away under it. On a full disk both the archive of a push and the directory
  of a pull may be a part, which nobody notices (`UsedIsWhole` and `UsedIsMatched` are therefore
  not claimed there); but such a part stays where it is: it is never pushed under a key.
* `OneCacheFile` and `MatchedFilePresent` hold for a single builder only:
  `get_one_depend_checksum` relies on the first.
* `CachedIsFresh`: the walk goes behind packages without a cache, and has to; the exceptions are
  those of `Covers`. `CacheIsTransparent` is the same of whole makes: with edits, failures and cleanings in
  between, each make goes as one without a cache. `NoNeedlessBuild`: after an edit that is taken back, or a
  distclean, everything comes from the cache again.
* `UnpackedWhole` and `Recovers`: torn archives are found by `tar` or md5 and go
  with their checksum file, so that the next run starts over.
* `CheckedIsAcyclic`: the check covers every selection, but for packages that
  depend on a package with `finally`. `CircularIsReal`: its alarms are true, but
  for lines that name a package twice in one list.
* `LogComplete`: no drain is needed after the loop, since a read takes as much
  as a pipe holds and the last turn reads both pipes that its `select` has seen.
* `SuccessIsReal` has one exception: `WEXITSTATUS` of a make that a signal has
  ended is 0. The signal may be SIGPIPE, after the monitor has left because
  another make took over `log/port`.
* `MonitorEnds` has one exception: a process that keeps the pipes open after a
  make that sends no stop (it failed, or it built a single package) holds the
  monitor as long as it lives.

* `DependencyKept`: whatever is handed down, joined and eliminated, an entry has the
  dependency written for it and the blocks around it. `ChangeableIsReached`: the automatic
  submenus never hide what can be changed.
* `ValuesCurrent`: the setters compare the new value with the one they have cached
  (`sym_set_tristate_value`) or with the user's (`sym_set_string_value`) before they clear the
  caches; both are enough.
* `ReadBack`: the file stands for all values, and the next program finds nothing to
  change in it. `MinimalBack` has one exception: a value taken over from a transitional
  symbol is left out of the minimal configuration, together with the transitional symbol.
* `UnsavedKnown` has two exceptions: finding 4, and a file whose last save fell short, since the mark of
  changes goes whether or not all of the text was written. The run reaches both.
* `StoreImplemented` (a refinement, `INSTANCE ConfigStore WITH stored <- Stored, held <- Held, reached <- OnDisk`):
  for every failing call, short write and death. Between the two renames of `conf_write()` there is no
  `.config`; the stored text is then `.config.old`, and the refinement says that
  this is never anything but the text before. What replaces it is what has reached the temporary file: with
  a short write that is a part, and the save still ends in success.
* `ChangesAreTouched`: the dependency files come before the header and `auto.conf`; the other way round
  a death in between would leave objects that nothing compiles again. The exception is `early`, and the run reaches
  it: a sync dies between the header and `auto.conf`, make compiles with the new header, the configuration is
  taken back; then `auto.conf` shows no difference, nothing is touched, and the objects stay those of the
  values that were taken back.
* `ProgramImplemented` (a refinement, `INSTANCE KconfigProgram WITH values <- <<db, u>>, Text <- WrittenText`):
  every step of conf, mconf and make is one of `KconfigProgram`, so that its theorems
  hold for them. That an accepted answer which changes the text sets the change
  flag, that what is read without setting the flag says what is held, and that the text of a save is that of
  the values are steps of it, which the database decides.
* `SessionImplemented`: every step of conf and mconf does to the values one of the steps of `KconfigSession`; the
  database of every project is `Regular` once `conf_parse()` has accepted it, and after every step the dependencies are
  `HandedDown` to the properties. These are the assumptions of the theorems about values, and the part of them that
  the database decides.

### Findings

1. `cache_stale`: `pull_cache` does nothing when the install directory and its
   flag are there, whatever key they belong to. After another builder's push a
   local match makes a builder use its image of an older version
   (`process_cache.sh:519`; `README.md:1203`).
2. `cache_torn`: the mirror's archive is written under its final name; the part
   that a killed check leaves is a match for the next one
   (`process_cache.sh:487`; `notes/cbuild.md:108`).
3. `chain_select`: for `&&x|y` the text of all alternatives is appended to the
   weak dependencies instead of each alternative, so the selected one is not
   ordered before the package (`gen_build_chain.py:192`; `README.md:448`).
4. `kconfig_load`: `conf_load()` of mconf calls `conf_read()` with the name that was typed, and
   that sets the change flag to FALSE before it looks for the file. After a wrong
   name mconf ends without the question "Do you wish to save your new configuration?"
   (`mconf.c:722`, `confdata.c:506`; `mconf.c:894`), and what was edited is lost.

## 4. Proofs

Checked by TLAPS for every value of the constants that satisfies the module's
assumptions (kinds of the constants, distinctness of `None`, finiteness of
`Packages`).

* `TypeCorrect`: `Spec => []TypeOK` of BuildCache. `TypeOK` alone is not
  inductive, `Untar` copies the file of the checked key and needs that there is
  one: `TypeInv` adds that wherever the code reads `<package>-checksum` it exists
  (`KeyKnown`) and that an image is completed only in an install directory that
  has just been created (`ImageMade`).
* `CacheIsSound`, `UnpackIsSound`: `[]CacheSound` and `[]UnpackedIsKeyed`, when
  `Features \subseteq {"fail", "space"}`: builds may fail, run out of space and be killed anywhere, but
  nobody edits a source while it is compiled and nobody is in development mode.
  The inductive invariant `SoundInv` adds `RunSound`: from the checksum to the
  push the key of `<package>-checksum` has the version of the inputs, what is
  built in between is the whole image of that version (so an archive lacks only what its own `tar`
  left out), and a file that a `wget` is writing is one the mirror has. The lemmas go over the steps of check, push,
  pull and the user.
* `CacheHasOneFile`, `MatchIsPresent`, `UsedIsTheMatched`: what the shared cache does not
  promise (finding 1) holds for a single builder (assumption `Alone`), for any versions and
  stamps: the first two through all failures, edits and force files, the third where nobody interferes
  (`Features = {}`). `AloneInv` follows the one file of the cache: no file while another
  is fetched or moved in, the matched one from the check to the pull. `SoloInv` adds that an install
  directory with its flag is the image of the key in `<package>-checksum` from the check on.
* `CacheIsFresh`, `BuildIsNeeded`: `[]CachedIsFresh` and `[]NoNeedlessBuild` of CacheChain, for any
  packages, any dependencies (circles included: their rules never start) and any recipes. A key names
  the keys of others and passes over packages without a cache, so what it stands for cannot
  be read from it alone. The inductive invariant `ChainInv` says that there is a ledger `I`, which gives every
  key used so far the image it stands for, and no image to two keys (`Ledger`, `Stands`, `View`); that
  cache files, flagged install directories and the checksum of a rule agree with it
  (`CacheInv`, `KeyInv`) as long as no part of an install is kept (`Trusted`), and that nothing a rule has waited for changes while it works (`OrderInv`).
  The ledger is bound by a quantifier: each step only extends it, and old entries stay (`LedgerStays`).
  `KeyIsFresh` is the heart: when the dependencies are done, the key of the walk is in the ledger with the
  image a build would give, or can be entered. An old entry is still right because two views of the same keys
  are one (`ViewIsOne`: of the packages in which they differ, one, by `DoneOrdered`, needs none of the others);
  and two keys that stand for the same image are one, since the walk sees nothing that the image is not made from (`ViewsDiffer`).
* `CacheIsPlain`: `Spec => CacheIsTransparent`, the step simulation. The step that makes a rule done (`Push`,
  `Pull`, or `Compile` without a cache) is a `Build` of PlainMake: `Ready` has waited for the dependencies, and that
  the image is the one `Build` gives is `CachedIsFresh'` of `CacheIsFresh`. Start, end and edit are those of PlainMake
  (`ClaimsStay`: what is claimed depends on the recipes and on what has been kept, and a pull may keep more,
  `TrustShrinks`), all else stutters (`QuietIsPlain`).
* `FetchTypeCorrect`, `OneInScript`, `UnpackedIsWhole`, `WantedIsHandedOn`, `ArchivesAreNamed`: the
  invariants of FetchPackage and the exclusion of its lock, for any builders, revisions,
  number of mirrors, and any failures and kills. The inductive invariant `FetchInv` says that whoever is in
  the script is alone there (`Exclusive`), so that what a command has tested still
  holds when the next one uses it; that `checksrc` is of the revision that has been downloaded, but in the windows
  between two steps that a kill can leave open (`Recorded`, `SumWhole`); and for each step of a
  run which method it is in, which files are there, which revision they are of
  and which of them are complete (`StageInv`). `Copied`, the part about the source tree, is
  what the next run relies on: a `checkdst` equal to `checksrc` stands beside a complete tree of that revision, unless a `cp` failed;
  `Halved` says that the `checkdst` beside a half removed tree is not the `checksrc` of that removal.
* `DepsAreBuilt`: `[]CompilesOnDeps` of BuildChain for any finite set of packages, any recipes, selection and number
  of jobs. The inductive invariant `MakeInv` says that a package beyond `wait`
  has its direct dependencies built, that the global sysroot is closed under
  dependencies, and that a private sysroot holds the closure when the compilation
  starts. `ClosureInside`
  gives the step from direct dependencies to all that is reached: a set closed
  under `deps` that holds the dependencies of a package holds its closure.
* `TypeCorrect`, `LineIsWritten`, `RoundsAreOrdered`, `ReportIsReal`, `AcceptedIsAcyclic`: `TypeOK`,
  `PlainIsDep`, `ChainIsOrdered`, `CircularIsReal` and `CheckedIsAcyclic` of BuildChain, for any recipes
  of any finite set of packages: lists of any length, that may name a package
  several times. In the inductive invariant `OrderInv` the heart is `Counted`: `acount` of an item is
  the length of its lists and the place of finally, less what `Hits` has found among the items in a round.
  When the count is 0, all names are placed (`LeftOf`), so a round depends on earlier ones;
  when no item is left with the count 0, each one waits for another one, and if no line names a package twice
  that is a circle of a finite set (`CircleExists`). In an order without a dependency that goes back
  only `finally` can make a circle (`OrderedGraph`). These are inductions over lists and finite sets.
  The induction theorems of the library quantify over predicates, which the provers cannot instantiate;
  `InductionLemmas` states them for the set of values that satisfy the predicate.

* `LogIsComplete`, `SuccessMeansBuilt`: `[]LogComplete` and `[]SuccessIsReal` of
  Progress, for any packages and sizes with `BufSize >= PipeSize`, and any order
  of the two processes. `LogComplete` speaks of the end of the loop; the inductive
  invariant `LogInv` has to know the last turn before it ends (`TurnInv`): when
  an end of file or make's stop is in this turn's snapshot, make has ended and
  whatever is unread is in the snapshot too and not yet passed. `StopInv` says
  that stop is the last thing make does, `EndInv` ties `running` to its reason.

* `BarTypeCorrect`, `StopFindsAll`: the type invariant and `[]StopAtFull` of Progress, for any packages
  (the second one: at least one). Each datagram is sent once, in the order total, begin, end, stop (`QueueInv`), and says
  what has happened (`SaidInv`); the bar and the datagrams that wait make up what make has done,
  unless one was dropped (`LiveInv`, `BarInv`), where the list holds each package once, so that an end removes
  the right one; and the file names this monitor's port only when its socket is there (`PortInv`). So when make's stop
  is taken, nothing of its own waits and the bar is full.
* `ListIsRunning`: `[]LiveIsRunning`: the list, once it has taken the datagrams that wait, has the packages that make
  works on or has failed with, once each. `Coming` takes the datagrams one after the other, so the
  proof is an induction over the queue (`FollowsOne`: what becomes of one package on the way,
  `ComingLists`: of all), from `FullInv` and `ShownInv`: what runs is in the list, or its begin is on the way.

* `ConfigIsStored`: `FilesSpec => StoreImplemented`: KconfigFiles implements ConfigStore,
  for all texts, files and orders of failures, short writes and deaths. Every step maps to
  one step of the store or to none: the closing of the temporary file is `Short` if the text is not whole,
  `rename(tmp, .config)` is `Commit`, the end of a save
  `Done` or `Abort`, the rest leaves `Stored` alone. `TouchedInvariant`: `[]ChangesAreTouched`. Both
  follow from the inductive invariant `FilesInv` (`FilesInvariant`): after the second rename the file
  holds what reached the temporary file (`Written`), which is what a reported success needs; between the
  dependency files and `auto.conf` all names that will change are touched (`Prepared`); and what `auto.conf` says otherwise than the objects, or the header otherwise
  than `auto.conf`, is touched or `early` (`Followed`), so that what was compiled, `auto.conf` and the header
  are three texts in a row (lemma `ChangesChain`). That a make which compiles only a part of the symbols brings these up to the
  header and leaves the others as they were is the lemma `ChangesMixed`.
* `NothingIsLost`: `[]UnsavedKnown` of KconfigProgram, for any values and texts, any answers, loads,
  failures, short writes and deaths, with the two exceptions in the formula. `UnsavedKnown` speaks of the menu only, but mconf saves from there and
  comes back: the inductive invariant `ProgramInv` adds to `FilesInv` that a program saves while the
  files have a step to take (`SaveGoesOn`), that a save from the menu does not touch
  `auto.conf` (`MenuSave`), what a program starts with (`Starting`), and `Known`, which carries the claim through the
  first step of a save from the menu: a failure there goes back to the menu with the flag as it was, a failed rename
  sets it again.
* `ProgramUsesFiles`, `ProgramStores`, `ProgramTouches`, `SaveIsComplete`: each step of KconfigProgram is one of
  `FilesSpec` or leaves the files alone, so the theorems about the files hold for the programs; and
  the last step of a save finds in its file what has reached the temporary file, which is the text of the values held unless a
  write fell short.
* These theorems reach the real database by `ProgramImplemented`, which TLC checks on the projects of the run `kconfig`:
  the theorems leave the database open, the run leaves the files closed.
* `ValuesAreCurrent`, `OneIsChosen`, `ValuesWithinDeps`: `[]ValuesCurrent`, `[]ChoiceOne` and `[]WithinDeps` of
  KconfigSession, for any `Regular` database, any number of symbols, choices and properties, and anything that is set. Of expressions
  they assume `ExprLaws`: a value is n, m or y, depends on the mentioned symbols only, that of `e && f` is the lesser one.
  These hold of `ExprValue` by induction over expressions, which the provers cannot do; TLC evaluates them
  on expressions of up to three operators (`ExprLawsHold` in MCKconfig).
  The inductive invariant `SessionInv` says that what is cached has its kinds (`Typed`) and is what would be computed from what
  is cached now (`Stable`). `Recomputed` goes through the symbols in the order of reading and computes each
  once; it ends in a stable state (`RecomputedStable`) since a step changes nothing that an earlier one has read, and a
  stable state recomputes to itself (`StableRecomputed`). The setters that do not clear the caches keep a state stable
  (`SetSameStable`, `ChooseSameStable`): the value of the one symbol that was set is the same, computed from the user's value or not,
  and no other value reads a user's value. So does a symbol that takes over the value of a
  transitional one (`AdoptStable`), if its prompt is shown without a condition (`TakersAreShown`, section 5).
  `OneIsChosen` follows from a stable choice (`OneMember`: whichever list the member is taken from, it is a visible one),
  `ValuesWithinDeps` from `HandedDown` (`LimitsHold`: visibility and default are within the dependencies).
  They reach the real database by `SessionImplemented`.
* `JoinOrKeepsValue`, `JoinAndKeepsValue`, `OfBoolKeepsValue`, `NegatedIsNot`: whatever two operands `expr_join_or()` and
  `expr_join_and()` make one, the one has the value of both, for all symbols and values; and so has the
  rewritten comparison of a bool (`A!=y` excepted, section 5), and the comparison that
  replaces a negated one. The cases are those of the operands: the same
  symbol, both compared with constants, one compared and one not. The values are given by `AtomValue` and `OperandValue`,
  which have the clauses of `ExprValue` in KconfigSymbol for expressions of this size; that the eliminations,
  which apply the rules all over a tree, keep the dependency is `DependencyKept` of the run `kconfig`.

Only model-checked: everything temporal (`RebuildConverges`, `Recovers`,
`Completes`, `MonitorEnds`, `ProgramEnds`: liveness under fairness is not in the prover's reach);
`ProgramImplemented` and `SessionImplemented`, and with them the invariants of the database of kconfig (`TypeOK`, `DependencyKept`,
`RecursionIsCycle`, `ChangeableIsReached`, `ReadBack`, `MinimalBack`) and that the database of an accepted text is `Regular`: its trees
and expressions are walked by RECURSIVE operators (KconfigExpr, KconfigMenu,
KconfigSymbol, and Kconfig above them), for which the provers have no arithmetic and no functions.

## 5. Not modelled, and why

* Parts whose state is only that of one sequential run and that fail by wrong
  text rather than wrong order: package information, standalone packages,
  machine and mirror tables, recipe conversion, toolchain.
* Yocto mode: bitbake orders and caches; the generator only writes inputs.
* kconfig: the lexer and the preprocessor (text processing), the windows of lxdialog,
  the search, help texts, hex and string symbols (int stands for values that are not tristate),
  the `.cmd` file, `rustc_cfg`, `KCONFIG_OVERWRITECONFIG`, `helpnewconfig` (listnewconfig
  with other output). The `KCONFIG_*` environment is unset but for the modes that are
  named after it (`alt` is the file of KCONFIG_ALLCONFIG, `silentsync` is KCONFIG_NOSILENTUPDATE).
* kconfig, inputs that are left out because the code's own behaviour is open or wrong there:
  members of a choice with conditions of their own (`MembersAreAlike`; `sym_calc_choice()` stops at the first member that the
  user has set and then reads the
  visibility of others that may be out of date, `symbol.c:310-379`; with members that are alike the stop makes no difference, and
  `LookedAll` looks at all of them); a choice whose default is no member of it (a warning only, `menu.c:256-263`:
  `sym_choice_default()` returns it, and no member of the choice is set, `symbol.c:272-295`); a choice without a
  visible member that conf asks for (its loop does not end, `conf.c:494`); a prompt with an `if`
  that lets a symbol be m at most while its default is y (`conf.c:419`); `A!=y` on a bool
  compared with m (`expr.c:649`); `!A` of a tristate in a reverse comparison, which loses m
  (`expr.c:827`); a symbol with a prompt `if` some condition whose default is a transitional symbol: it takes its
  value over as its own user value (`symbol.c:523-534`), and the next computation lowers that to the visibility of the prompt
  (`TakersAreShown` in KconfigSession); a cycle through the bounds of a range, which `sym_check_sym_deps()` does not follow;
  SIGINT while mconf writes (`mconf.c:933`).
* kconfig, known of the code but no property: `conf_write_defconfig()` writes in place, a
  death or a full disk leaves a part of the file (`PutDefconfig`); between the two renames there is no `.config`, and
  `inc.conf.mk:106` would then load a default configuration. Texts cut within a line are in no run: the last line of
  the part would be a value cut short, or nothing that `conf_read_simple()` knows.
* Known of the code, and no property yet: with several builders the key of a dependency is read from
  whatever file of it is in the cache (`process_cache.sh:269`; CacheChain has one builder),
  and the checksum of a download after its lock is released (`:244`); the first svn checkout of a pinned revision runs `svn update`
  outside the directory (`fetch_package.sh:233`) and fails, on every retry: svn packages are left out of FetchPackage, whose
  `Recovers` they do not have; `rm -rf tree checkdst` (`:359`) removes the tree first, and nothing but the next run's
  `checksrc` shows that it was killed; `cp -rfp` (`:383`) is not checked before `:389`; a native variant with dependencies loses them,
  since the branches of a condition are swapped (`gen_build_chain.py:238`); an empty choice is
  removed from the list that is being iterated (`gen_build_chain.py:985`).
* In BuildChain: native variants (`<package>-native`), virtual packages
  (`choice`, `menuchoice`, `menuconfig`), `unions`, features, the targets `-pkg`,
  `-cpk`, `-eld` and `release`.
* In BuildCache: patches, the parts of a package's build. In CacheChain: force files,
  the mirror, several builders, a make of single packages. In FetchPackage: svn packages.

## 6. Plan

In this order; what is done is marked.

1. (done) BuildCache: actions, runs, `TypeCorrect`, `CacheIsSound`,
   `UnpackIsSound`.
2. (done) FetchPackage: actions, runs.
3. (done) BuildChain: lists, circular check, selection, parallel make, runs,
   `DepsAreBuilt`.
4. (done) Progress: the select loop, the child, the port file, datagrams, run,
   `LogIsComplete`, `SuccessMeansBuilt`.
5. (done) Kconfig: expressions, tree, values, files, programs, runs, ConfigStore
   and its refinement, `ConfigIsStored`, `TouchedInvariant`; KconfigProgram, its
   refinement, `NothingIsLost`; `JoinOrKeepsValue`, `JoinAndKeepsValue`; KconfigSession, its refinement,
   `ValuesAreCurrent`, `OneIsChosen`, `ValuesWithinDeps`.
6. (done for one builder) CacheChain: keys made of keys, run, `CacheIsFresh`, `BuildIsNeeded`; PlainMake
   and its refinement, `CacheIsPlain`.
   Next: several builders over one cache, and the checksum of a download read outside its lock.
7. Sysroot: files of packages, hard links, replaced and stale files; composed
   with the installs of BuildChain. ExecLd: choice of loader and library path as
   a pure function compared with the order that the README documents. One run.
8. BuildChain extended: native variants and virtual packages, once the order of
   the items they add is settled.
9. Abstract specifications: "the cache is a partial function from keys to whole
   images, changed atomically", implemented by BuildCache up to downloads in
   progress; "a fetch is an atomic get of a revision", implemented by FetchPackage.
10. Proofs: (done) FetchPackage and the exclusion its lock gives; one builder's
   cache; the type invariant of Progress, `StopAtFull`, `LiveIsRunning`; the lists, rounds and circles of
   BuildChain; packages without a cache in CacheChain, and a make without a cache; the programs of kconfig for any database,
   and its values for any expressions. Next: the step simulation of the abstract specifications of item 9; reading back
   (`ReadBack`) from a stable state, with the lines of a file as a list of names and values; the tree that
   `menu_finalize()` makes, once its walks are recursive functions.
