------------------------------- MODULE Startup -------------------------------
(***************************************************************************)
(* What happens before the emulated main runs (main.cpp and eval.cpp): the *)
(* functions of all files get their ids and blocks, then file by file the  *)
(* declarations are set up and the variables initialized, then main is     *)
(* looked up.  Names are resolved through the file's own table local_vars  *)
(* and, for external linkage, through global_vars.                         *)
(*                                                                         *)
(* A block holds one number: a function's id, a variable's address value,  *)
(* or a marker for other contents.  Initializers are constants or the      *)
(* address of a variable, as C demands of globals.                         *)
(***************************************************************************)
EXTENDS Memory

CONSTANTS
  Programs,   (* the programs: each a sequence of files, a file a sequence  *)
              (* of declarations [kind, name, external, init]               *)
  FidSpace    (* the number of function ids, 2^32 in the code               *)

NUM_EXTERNAL_FUNCTIONS == 3

ASSUME FidSpaceAssumption == FidSpace \in Nat /\ FidSpace > NUM_EXTERNAL_FUNCTIONS

DeclType ==
  [kind : {"def", "decl", "var", "extern"}, name : STRING, external : BOOLEAN, init : STRING]

IsFunction(d) == d.kind \in {"def", "decl"}
IsDefinition(d) == d.kind \in {"def", "var"}

(* What Clang and C demand of a program: a name is a function or a         *)
(* variable, with one linkage and one initializer in a file; a name of     *)
(* external linkage is the same in all files, and defined in one; a static *)
(* name that a file declares is defined there.                             *)
Agree(sameFile, d, e) ==
  /\ IsFunction(d) <=> IsFunction(e)
  /\ sameFile => (d.external <=> e.external)
  /\ ~sameFile => ~(IsDefinition(d) /\ IsDefinition(e))

Accepted(p) ==
  /\ p \in Seq(Seq(DeclType)) /\ Len(p) > 0
  /\ \A s, t \in DOMAIN p : \A j \in DOMAIN p[s], k \in DOMAIN p[t] :
       /\ p[s][j].name = p[t][k].name
       /\ s = t \/ (p[s][j].external /\ p[t][k].external)
       => Agree(s = t, p[s][j], p[t][k])
  /\ \A s \in DOMAIN p : \A j, k \in DOMAIN p[s] :
       (p[s][j].name = p[s][k].name /\ p[s][j].init # "" /\ p[s][k].init # "") => j = k
  /\ \A s \in DOMAIN p : \A k \in DOMAIN p[s] :
       p[s][k].external \/ \E j \in DOMAIN p[s] : p[s][j].name = p[s][k].name /\ IsDefinition(p[s][j])

ASSUME ProgramsAssumption == \A p \in Programs : Accepted(p)

VARIABLES
  files,             (* the program: sources                                *)
  pc,                (* where main() is: [phase, file, k]                   *)
  fid_counter,
  global_functions,  (* from function ids to the file of the definition     *)
  local_vars,        (* for each file, from names to blocks                 *)
  global_vars,       (* from names with external linkage to files           *)
  main_source        (* 0 for none, -1 in the code, which counts from zero  *)

tables == <<fid_counter, global_functions, local_vars, global_vars, main_source>>

vars == <<mem, files, pc, tables>>

Garbage == -1
Constant == -2
NullBlock == 0

-----------------------------------------------------------------------------
decl == files[pc.file][pc.k]

(* map.insert: an entry that is there stays.                               *)
Insert(f, k, v) == [x \in DOMAIN f \cup {k} |-> IF x \in DOMAIN f THEN f[x] ELSE v]

(* get_nonstack_var in the file s; no block if the name is unknown.        *)
Resolve(s, name) ==
  CASE name \in DOMAIN local_vars[s] -> local_vars[s][name]
    [] name \notin DOMAIN local_vars[s] /\ name \in DOMAIN global_vars ->
         local_vars[global_vars[name]][name]
    [] OTHER -> NullBlock

get_nonstack_var(name) == Resolve(pc.file, name)

(* The loops over the declarations and the files: pc is at a declaration   *)
(* of its phase, or the next phase has come.                               *)
AtDecl(phase) ==
  mem.outcome = "run" /\ pc.phase = phase /\ pc.k \in DOMAIN files[pc.file]

Advance == pc' = [pc EXCEPT !.k = @ + 1] /\ UNCHANGED files

NextPhase(phase, file) == pc' = [phase |-> phase, file |-> file, k |-> 1]

Loop ==
  /\ mem.outcome = "run"
  /\ pc.phase \in {"store", "setup", "init"}
  /\ pc.k \notin DOMAIN files[pc.file]
  /\ CASE pc.phase = "store" ->
            IF pc.file < Len(files) THEN NextPhase("store", pc.file + 1) ELSE NextPhase("check", 1)
       [] pc.phase = "setup" -> NextPhase("init", pc.file)
       [] pc.phase = "init" ->
            IF pc.file < Len(files) THEN NextPhase("setup", pc.file + 1) ELSE NextPhase("run", 1)
  /\ UNCHANGED <<mem, files, tables>>

-----------------------------------------------------------------------------
(* A new block for a name of the current file; err_exit leaves the tables. *)
Bind(blockmem, external) ==
  /\ mem' = blockmem
  /\ IF blockmem.outcome # "run" THEN UNCHANGED <<local_vars, global_vars>>
     ELSE /\ local_vars' = [local_vars EXCEPT ![pc.file] = Insert(@, decl.name, mem.id_counter)]
          /\ global_vars' = IF external THEN Insert(global_vars, decl.name, pc.file)
                            ELSE global_vars

(* Faulty variant: the wrap of the function ids is not noticed.            *)
new_fid_wrapping == fid_counter' = (fid_counter + 1) % FidSpace

(* The id of a new function is the counter's value before the call.        *)
new_fid == fid_counter # 0 /\ fid_counter' = (fid_counter + 1) % FidSpace

(* A definition that the file does not know yet gets a function id and a   *)
(* block that is hidden until the function is declared.                    *)
Unstored == decl.kind = "def" /\ decl.name \notin DOMAIN local_vars[pc.file]

StoreFuncImpl ==
  /\ AtDecl("store")
  /\ Unstored
  /\ Advance
  /\ new_fid
  /\ Bind(mem_block(mem, "INVALID", <<fid_counter>>), decl.external)
  /\ global_functions' = Insert(global_functions, fid_counter, pc.file)
  /\ main_source' = IF decl.external /\ decl.name = "main" THEN pc.file ELSE main_source

(* Other declarations wait for SetupVar.                                   *)
StoreNothing ==
  /\ AtDecl("store")
  /\ ~Unstored
  /\ Advance
  /\ UNCHANGED <<mem, tables>>

TooManyFunctions ==
  /\ AtDecl("store")
  /\ Unstored
  /\ fid_counter = 0
  /\ mem' = End(mem, "exit")
  /\ UNCHANGED <<files, pc, tables>>

(* main() returns if no file has an external main.                         *)
CheckMain ==
  /\ mem.outcome = "run"
  /\ pc.phase = "check"
  /\ IF main_source = 0 THEN mem' = End(mem, "exit") /\ UNCHANGED pc
     ELSE UNCHANGED mem /\ NextPhase("setup", 1)
  /\ UNCHANGED <<files, tables>>

Unhide(b) == [mem EXCEPT !.active_mem[b].memtype = "STATIC"]

(* A declaration without a definition: the file gets a block of no bytes.  *)
Undefined ==
  /\ Bind(mem_block(mem, "EXTERN", <<>>), FALSE)
  /\ UNCHANGED <<fid_counter, global_functions, main_source>>

(* Faulty variant: a declaration looks only in its own file.               *)
SetupFunc_local ==
  IF decl.name \in DOMAIN local_vars[pc.file]
  THEN mem' = Unhide(local_vars[pc.file][decl.name]) /\ UNCHANGED tables
  ELSE Undefined

(* A function whose block holds the id of a definition is unhidden.  For   *)
(* the second declaration of an undefined function the id is read behind a *)
(* block of no bytes, where anything may be found.                         *)
SetupFunc ==
  LET b == get_nonstack_var(decl.name)
      data == mem.active_mem[b].data
  IN IF b = NullBlock THEN Undefined
     ELSE /\ mem' \in CASE data = <<>> -> {mem, Unhide(b)}
                        [] data # <<>> -> {IF data[1] \in DOMAIN global_functions
                                           THEN Unhide(b) ELSE mem}
          /\ UNCHANGED tables

(* Faulty variant: an entry is made before the block, which may not come.  *)
SetupGlobal_early ==
  /\ mem' = mem_block(mem, "GLOBAL", <<Garbage>>)
  /\ local_vars' = [local_vars EXCEPT ![pc.file] = Insert(@, decl.name, mem.id_counter)]
  /\ UNCHANGED <<global_vars, fid_counter, global_functions, main_source>>

(* A variable: a new block, which the file's table refers to unless it     *)
(* had an entry before.  Its data is not initialized.                      *)
SetupGlobal ==
  /\ Bind(mem_block(mem, "GLOBAL", <<Garbage>>), decl.external)
  /\ UNCHANGED <<fid_counter, global_functions, main_source>>

SetupVar ==
  /\ AtDecl("setup")
  /\ Advance
  /\ CASE decl.kind \in {"def", "decl"} -> SetupFunc
       [] decl.kind = "var" -> SetupGlobal
       [] decl.kind = "extern" -> UNCHANGED <<mem, tables>>

(* The initializer "" is none, "0" a constant, and a name the address of   *)
(* that variable: the null pointer if no file so far has the name.         *)
InitialValue(init) == IF init = "0" THEN Constant ELSE get_nonstack_var(init)

(* Faulty variant: a variable without initializer is set to zero.          *)
InitializeVar_zeroing ==
  /\ AtDecl("init")
  /\ Advance
  /\ UNCHANGED tables
  /\ IF decl.kind # "var" THEN UNCHANGED mem
     ELSE mem' = [mem EXCEPT !.active_mem[local_vars[pc.file][decl.name]].data =
                     IF decl.init = "" THEN <<NullBlock>> ELSE <<InitialValue(decl.init)>>]

InitializeVar ==
  /\ AtDecl("init")
  /\ Advance
  /\ UNCHANGED tables
  /\ IF decl.kind # "var" \/ decl.init = "" THEN UNCHANGED mem
     ELSE mem' = [mem EXCEPT !.active_mem[local_vars[pc.file][decl.name]].data =
                                 <<InitialValue(decl.init)>>]

(* RunProgram looks main up in the file that main_source names.            *)
FindMain ==
  /\ mem.outcome = "run"
  /\ pc.phase = "run"
  /\ LET b == local_vars[main_source]["main"]
         fid == mem.active_mem[b].data[1]
     IN mem' = End(mem, IF fid \in DOMAIN global_functions THEN "done" ELSE "exit")
  /\ UNCHANGED <<files, pc, tables>>

-----------------------------------------------------------------------------
StartupInit ==
  /\ mem = [Start(<<>>) EXCEPT !.stack_vars = <<>>]
  /\ files \in Programs
  /\ pc = [phase |-> "store", file |-> 1, k |-> 1]
  /\ fid_counter = NUM_EXTERNAL_FUNCTIONS
  /\ global_functions = [f \in {} |-> 0]
  /\ local_vars = [s \in DOMAIN files |-> [n \in {} |-> 0]]
  /\ global_vars = [n \in {} |-> 0]
  /\ main_source = 0

StartupNext ==
  \/ StoreFuncImpl \/ StoreNothing \/ TooManyFunctions \/ CheckMain
  \/ SetupVar \/ InitializeVar \/ Loop \/ FindMain

StartupSpec == StartupInit /\ [][StartupNext]_vars

-----------------------------------------------------------------------------
(***************************************************************************)
(* Properties.                                                             *)
(***************************************************************************)
DeclaredNames(s) == {files[s][k].name : k \in DOMAIN files[s]}

DefiningFiles(name) ==
  {s \in DOMAIN files : \E k \in DOMAIN files[s] :
     /\ files[s][k].name = name /\ files[s][k].external
     /\ files[s][k].kind \in {"def", "var"}}

HasOwn(s, name) ==
  \E k \in DOMAIN files[s] : files[s][k].name = name /\ files[s][k].kind \in {"def", "var"}

(* Type invariant: the tables hold issued blocks, and files that exist.    *)
StartupTypeOK ==
  /\ mem.id_counter \in block_id_t
  /\ fid_counter \in 0 .. (FidSpace - 1)
  /\ main_source \in {0} \cup DOMAIN files
  /\ \A s \in DOMAIN files : \A n \in DOMAIN local_vars[s] : local_vars[s][n] \in DOMAIN mem.active_mem
  /\ \A n \in DOMAIN global_vars : n \in DOMAIN local_vars[global_vars[n]]

(* Linking: once all files are set up, a name that one file defines with   *)
(* external linkage means that definition's block in every file that       *)
(* declares the name without defining it, whichever file comes first, and  *)
(* the block is not hidden.                                                *)
DeclarationsFindDefinition ==
  (pc.phase = "run" /\ mem.outcome # "exit") =>
    \A s \in DOMAIN files : \A n \in DeclaredNames(s) :
      (~HasOwn(s, n) /\ DefiningFiles(n) # {}) =>
        /\ \E d \in DefiningFiles(n) : Resolve(s, n) = local_vars[d][n]
        /\ mem.active_mem[Resolve(s, n)].memtype # "INVALID"

(* No two definitions share a function id, even at the end of the ids, and *)
(* an id leads back to the file that holds the definition's block.         *)
HoldsFid(b) == mem.active_mem[b].memtype \in {"INVALID", "STATIC"} /\ mem.active_mem[b].data # <<>>

FunctionIdsUnique ==
  \A s \in DOMAIN files : \A n \in DOMAIN local_vars[s] :
    LET b == local_vars[s][n]
        fid == mem.active_mem[b].data[1]
    IN HoldsFid(b) => /\ fid >= NUM_EXTERNAL_FUNCTIONS
                      /\ global_functions[fid] = s
                      /\ \A c \in DOMAIN mem.active_mem :
                           (HoldsFid(c) /\ mem.active_mem[c].data[1] = fid) => c = b

(* A global of external linkage that is initialized anywhere in the        *)
(* program has its initial value when main starts, as every file sees it:  *)
(* also when the file declares it twice and only the first block is bound. *)
InitializersReach ==
  (pc.phase = "run" /\ mem.outcome # "exit") =>
    \A s \in DOMAIN files : \A k \in DOMAIN files[s] :
      (files[s][k].kind = "var" /\ files[s][k].init = "0") =>
        \A t \in (IF files[s][k].external THEN DOMAIN files ELSE {s}) :
          (t = s \/ ~HasOwn(t, files[s][k].name)) =>
            mem.active_mem[Resolve(t, files[s][k].name)].data = <<Constant>>

(* "First, an allocation pass is done through all input file to allocate   *)
(* memory blocks to each function and global variable, then a second pass  *)
(* is done to initialize each of these": an initializer finds every global *)
(* of the program.  InitializeVars allocates and initializes file by file. *)
InitializersSeeAllGlobals ==
  [][(/\ InitializeVar
      /\ decl.kind = "var"
      /\ DefiningFiles(decl.init) # {})
       => mem'.active_mem[local_vars[pc.file][decl.name]].data # <<NullBlock>>]_vars

=============================================================================
