-------------------------------- MODULE Boot --------------------------------
(***************************************************************************)
(* kernel_main (src/kernel/kernel.c) up to the shell: one step per part it *)
(* initialises, with the interrupts that idt_init allows before any other  *)
(* part is there, and the page tables of src/kernel/paging.c.              *)
(*                                                                         *)
(* A definition that stands just before another, with its parameters, and  *)
(* that nothing uses, is what a bug would make of it: PROJECT.json names   *)
(* the property that would notice.                                         *)
(***************************************************************************)
EXTENDS Integers, Sequences

CONSTANTS
  PAGE_SIZE,
  Sections       \* the linker's: name -> <<start, end>>, addresses

(* linker.ld puts ". = ALIGN(4K)" before each of these symbols. *)
ASSUME BootAssumption ==
  /\ PAGE_SIZE \in Nat \ {0}
  /\ {".text", ".rodata", ".data", ".bss"} \subseteq DOMAIN Sections
  /\ \A s \in DOMAIN Sections :
       LET start == Sections[s][1] end == Sections[s][2] IN
       /\ start \in Nat \ {0} /\ end \in Nat
       /\ start % PAGE_SIZE = 0 /\ end % PAGE_SIZE = 0
       /\ \A t \in DOMAIN Sections \ {s} : end <= Sections[t][1] \/ Sections[t][2] <= start

VARIABLES
  machine,    \* what it has: a framebuffer with RGB colours, SSE if asked for
  step,       \* the next of kernel_main's steps
  up,         \* the parts that have been initialised
  used,       \* the parts that the last step, or the last interrupt, used
  protected   \* the page frames that are not writable

bootVars == <<machine, step, up, used, protected>>

PartsLateConsole ==
  << "idt", "paging", "heap", "vga", "mt", "fb", "pit", "fbc", "keyboard" >>
Parts ==
  << "idt", "paging", "heap", "vga", "mt", "fb", "fbc", "pit", "keyboard" >>

BootInit ==
  /\ machine \in [rgb : BOOLEAN, sse : BOOLEAN]
  /\ step = 1 /\ up = {} /\ used = {} /\ protected = {}

(* What the call, and the lines about it, take for granted: fbc_init gets  *)
(* its entries from the heap and draws them, LOAD_INFO prints.             *)
Needs(part) == CASE part = "fbc" -> {"heap", "fb", "fbc"}
                 [] part \in {"pit", "keyboard"} -> {"fbc"}
                 [] OTHER -> {}

rodata_end_idxOneMore == Sections[".rodata"][2] \div PAGE_SIZE
rodata_start_idx == Sections[".rodata"][1] \div PAGE_SIZE
rodata_end_idx == Sections[".rodata"][2] \div PAGE_SIZE - 1

Booting == step \in DOMAIN Parts
Booted  == step > Len(Parts)

(* Lines 157 and 207: the wrong framebuffer, or no SSE, is the end. *)
Refused ==
  \/ Parts[step] = "mt" /\ ~machine.rgb
  \/ Parts[step] = "keyboard" /\ ~machine.sse

InitPart ==
  /\ Booting /\ ~Refused
  /\ up' = up \union {Parts[step]}
  /\ used' = Needs(Parts[step])
  /\ protected' = IF Parts[step] = "paging" THEN rodata_start_idx .. rodata_end_idx ELSE protected
  /\ step' = step + 1
  /\ UNCHANGED machine

(* IRQ 0 and 1.  Both handlers tell the interrupt controller, which        *)
(* idt_init set up, that they are done.  pit_inc counts, and kb_handler    *)
(* uses the layout and the flags, which have static initialisers; it goes  *)
(* on to the buffers of kb_getchar_init and prints only if somebody waits  *)
(* for a character, which nobody does before the shell.                    *)
getting_char == Booted

HandlerUsesEchoing(irq) == {"idt"} \union (IF irq = 1 THEN {"keyboard", "fbc"} ELSE {})
HandlerUses(irq) == {"idt"} \union (IF irq = 1 /\ getting_char THEN {"keyboard", "fbc"} ELSE {})

EarlyInterrupt ==
  /\ Booting /\ "idt" \in up
  /\ \E irq \in {0, 1} : used' = HandlerUses(irq)
  /\ UNCHANGED <<machine, step, up, protected>>

(* abort: puts, and a halt. *)
Abort ==
  /\ Booting /\ Refused
  /\ used' = {"fbc"}
  /\ step' = 0 - step
  /\ UNCHANGED <<machine, up, protected>>

Aborted == step < 0
BootNext == InitPart \/ EarlyInterrupt \/ Abort
BootSpec == BootInit /\ [][BootNext]_bootVars

-----------------------------------------------------------------------------
(* Nothing is used before kernel_main has initialised it - but the console *)
(* on which abort says that there is no framebuffer for it (line 160).     *)
NothingTooEarly == used \subseteq up \/ (Aborted /\ ~machine.rgb)

(* The page frames without write permission are those of .rodata: not one  *)
(* of the data that the kernel writes, and all of .rodata (lines 89 to 102).*)
PagesOf(s) == {p \in 0 .. Sections[s][2] : \E a \in Sections[s][1] .. (Sections[s][2] - 1) : p = a \div PAGE_SIZE}
JustRodataProtected ==
  "paging" \in up =>
    /\ protected = PagesOf(".rodata")
    /\ \A s \in {".text", ".data", ".bss"} : protected \intersect PagesOf(s) = {}

BootsSafely == NothingTooEarly /\ JustRodataProtected
=============================================================================
