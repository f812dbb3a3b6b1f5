-------------------------------- MODULE Vm --------------------------------
(***************************************************************************)
(* The virtual machine (execution/vm.rs) and its gas meter                 *)
(* (execution/gas.rs).  A word is four limbs, most significant first; a    *)
(* limb stands for a u64 and is also the unit of memory.  Code is a        *)
(* sequence of opcodes; only the opcodes that step() implements have       *)
(* effects, every other one costs its gas and is skipped.                  *)
(***************************************************************************)
EXTENDS Integers, Sequences
LOCAL INSTANCE SequencesExt
LOCAL INSTANCE Bitwise

CONSTANTS VmLimb,     \* the base of a limb: 2^64 in the code
          VmMaxStack, \* MAX_STACK_SIZE
          VmMemory,   \* the largest memory the process can allocate
          VmCodes,    \* programs run on their own
          VmLimits,   \* gas limits they are run with
          VmHashes    \* words Keccak256 may return

VARIABLES vm,         \* the VM being run, or the last one
          vmSteps     \* steps it took

vmVars == <<vm, vmSteps>>

Words == [1..4 -> 0..VmLimb - 1]
WordZero == <<0, 0, 0, 0>>
WordOne == <<0, 0, 0, 1>>
WordOf(n) == <<0, 0, 0, n % VmLimb>>

(* word_to_usize keeps the last limb.                                       *)
word_to_usize(w) == w[4]

WordValue(w) == FoldLeft(LAMBDA n, limb : n * VmLimb + limb, 0, w)
ValueWord(n) == [i \in 1..4 |-> (n \div VmLimb ^ (4 - i)) % VmLimb]

WordAdd(a, b) == ValueWord(WordValue(a) + WordValue(b))
WordSub(a, b) == ValueWord(WordValue(a) - WordValue(b) + VmLimb ^ 4)

(* mul and div take the last limb for the high half of a u128.              *)
HalfSwapped(w) == w[3] + w[4] * VmLimb
SwappedHalf(n) == <<0, 0, n % VmLimb, (n \div VmLimb) % VmLimb>>
WordDiv(a, b) ==
    IF HalfSwapped(b) = 0 THEN WordZero ELSE SwappedHalf(HalfSwapped(a) \div HalfSwapped(b))

Flag(b) == IF b THEN WordOne ELSE WordZero
Limbwise(Op(_, _), a, b) == [i \in 1..4 |-> Op(a[i], b[i])]

BinaryOps == {"Add", "Sub", "Mul", "Div", "Lt", "Gt", "Eq", "And", "Or", "Xor"}
Binary(op, a, b) ==
    CASE op = "Add" -> WordAdd(a, b)
      [] op = "Sub" -> WordSub(a, b)
      [] op = "Mul" -> SwappedHalf(HalfSwapped(a) * HalfSwapped(b))
      [] op = "Div" -> WordDiv(a, b)
      [] op = "Lt" -> Flag(WordValue(a) < WordValue(b))
      [] op = "Gt" -> Flag(WordValue(a) > WordValue(b))
      [] op = "Eq" -> Flag(a = b)
      [] op = "And" -> Limbwise(LAMBDA x, y : x & y, a, b)
      [] op = "Or" -> Limbwise(LAMBDA x, y : x | y, a, b)
      [] op = "Xor" -> Limbwise(LAMBDA x, y : x ^^ y, a, b)

UnaryOps == {"IsZero", "Not"}
Unary(op, a) == IF op = "IsZero" THEN Flag(a = WordZero) ELSE [i \in 1..4 |-> VmLimb - 1 - a[i]]

(* gas_cost, with the default schedule.                                     *)
gas_cost(op) ==
    CASE op \in {"Stop", "Return", "Revert", "Invalid"} -> 0
      [] op = "JumpDest" -> 1
      [] op \in BinaryOps \cup UnaryOps \cup {"Pop", "PC", "Gas", "CallDataSize"} -> 2
      [] op \in {"MLoad", "MStore", "MStore8"} -> 3
      [] op = "SDiv" -> 5
      [] op \in {"Jump", "JumpI", "Push1"} -> 8
      [] op = "Exp" -> 10
      [] op = "Sha3" -> 30
      [] op = "SLoad" -> 2100

(* CallDataSize, SDiv, Push1, Exp and SLoad stand for the opcodes of their   *)
(* price that step() does not implement.                                    *)
Opcodes == BinaryOps \cup UnaryOps \cup
    {"Stop", "Return", "Revert", "Invalid", "JumpDest", "Pop", "PC", "Gas", "CallDataSize",
     "MLoad", "MStore", "MStore8", "SDiv", "Jump", "JumpI", "Push1", "Exp", "Sha3", "SLoad"}

(* from_u8, for the bytes below 32; 12 to 15, 30 and 31 are no opcode.      *)
from_u8(byte) ==
    CASE byte = 0 -> "Stop" [] byte = 1 -> "Add" [] byte = 2 -> "Mul" [] byte = 3 -> "Sub"
      [] byte = 4 -> "Div" [] byte = 6 -> "CallDataSize" [] byte \in {8, 9} -> "Push1" [] byte = 10 -> "Exp"
      [] byte \in {5, 7, 11, 18, 19, 26, 27, 28, 29} -> "SDiv"
      [] byte = 16 -> "Lt" [] byte = 17 -> "Gt" [] byte = 20 -> "Eq" [] byte = 21 -> "IsZero"
      [] byte = 22 -> "And" [] byte = 23 -> "Or" [] byte = 24 -> "Xor" [] byte = 25 -> "Not"
      [] OTHER -> "unknown"

Errors == {"OutOfGas", "InvalidOpcode", "StackOverflow", "StackUnderflow", "InvalidJump", "Revert", "Panic"}

VmNew(code, limit) ==
    [code |-> code, pc |-> 0, stack |-> <<>>, memory |-> <<>>, gas_limit |-> limit,
     gas_used |-> 0, return_data |-> <<>>, stopped |-> FALSE, error |-> "none"]

VmTypeOK ==
    /\ vm.pc \in Nat /\ vm.stack \in Seq(Words) /\ Len(vm.stack) <= VmMaxStack
    /\ vm.memory \in Seq(0..VmLimb - 1) /\ vm.error \in Errors \cup {"none"}

VmInit == vmSteps = 0 /\ \E code \in VmCodes, limit \in VmLimits : vm = VmNew(code, limit)

(* run's loop condition; the first error ends it as well.                   *)
VmRunning == ~vm.stopped /\ vm.error = "none" /\ vm.pc < Len(vm.code)
Fetched == vm.code[vm.pc + 1]

use_gas(meter, amount) == meter.gas_used + amount <= meter.gas_limit

(* Every opcode pays before it acts; the cost stays paid when it fails.     *)
Paid(op) == [vm EXCEPT !.gas_used = @ + gas_cost(op), !.pc = @ + 1]
Fetch(op) ==
    /\ VmRunning /\ Fetched = op /\ op \in Opcodes /\ use_gas(vm, gas_cost(op))
    /\ vmSteps' = vmSteps + 1
VmFails(v, e) == vm' = [v EXCEPT !.error = e]

VmRefuses ==
    /\ VmRunning /\ vmSteps' = vmSteps + 1
    /\ \/ Fetched \notin Opcodes /\ VmFails(vm, "InvalidOpcode")
       \/ Fetched \in Opcodes /\ ~use_gas(vm, gas_cost(Fetched)) /\ VmFails(vm, "OutOfGas")

(* The operands, top of the stack first, and what is left below them.       *)
Top(n) == vm.stack[Len(vm.stack) + 1 - n]
Below(n) == SubSeq(vm.stack, 1, Len(vm.stack) - n)

(* Pop n operands: underflow ends the run.                                  *)
Pops(op, n, Then) ==
    IF Len(vm.stack) < n THEN VmFails(Paid(op), "StackUnderflow") ELSE Then

(* Push onto what n pops left.                                              *)
Pushes(op, n, word) ==
    IF Len(Below(n)) >= VmMaxStack THEN VmFails(Paid(op), "StackOverflow")
    ELSE vm' = [Paid(op) EXCEPT !.stack = Append(Below(n), word)]

(* A product past the u128 panics in a debug build and wraps in release.    *)
Computes ==
    \/ \E op \in BinaryOps :
         /\ Fetch(op)
         /\ \/ Pops(op, 2, Pushes(op, 2, Binary(op, Top(1), Top(2))))
            \/ /\ op = "Mul" /\ Len(vm.stack) >= 2
               /\ HalfSwapped(Top(1)) * HalfSwapped(Top(2)) >= VmLimb ^ 2
               /\ VmFails(Paid(op), "Panic")
    \/ \E op \in UnaryOps : Fetch(op) /\ Pops(op, 1, Pushes(op, 1, Unary(op, Top(1))))
    \/ Fetch("Pop") /\ Pops("Pop", 1, vm' = [Paid("Pop") EXCEPT !.stack = Below(1)])
    \/ Fetch("PC") /\ Pushes("PC", 0, WordOf(vm.pc + 1))
    \/ Fetch("Gas") /\ Pushes("Gas", 0, WordOf(vm.gas_limit - vm.gas_used - gas_cost("Gas")))

(* Memory reads past the end give zeros; the memory does not grow.          *)
MemoryRead(offset, size) ==
    [i \in 1..size |-> IF offset + i <= Len(vm.memory) THEN vm.memory[offset + i] ELSE 0]
MemoryWritten(offset, data) ==
    [i \in 1..(IF offset + Len(data) > Len(vm.memory) THEN offset + Len(data) ELSE Len(vm.memory)) |->
        IF i \in offset + 1..offset + Len(data) THEN data[i - offset]
        ELSE IF i <= Len(vm.memory) THEN vm.memory[i] ELSE 0]

(* A write that ends past what can be allocated panics: the end wraps, or   *)
(* the allocation fails.                                                    *)
Stores(op, offset, data) ==
    IF offset + Len(data) > VmMemory THEN VmFails(Paid(op), "Panic")
    ELSE vm' = [Paid(op) EXCEPT !.stack = Below(2), !.memory = MemoryWritten(offset, data)]

Remembers ==
    \/ /\ Fetch("MLoad")
       /\ Pops("MLoad", 1, Pushes("MLoad", 1, MemoryRead(word_to_usize(Top(1)), 4)))
    \/ Fetch("MStore") /\ Pops("MStore", 2, Stores("MStore", word_to_usize(Top(1)), Top(2)))
    \/ Fetch("MStore8") /\ Pops("MStore8", 2, Stores("MStore8", word_to_usize(Top(1)), <<Top(2)[4]>>))

(* A range read of memory; a size past what can be allocated panics.        *)
ReadsRange(op, Then(_)) ==
    Pops(op, 2, IF word_to_usize(Top(2)) > VmMemory THEN VmFails(Paid(op), "Panic")
                ELSE Then(MemoryRead(word_to_usize(Top(1)), word_to_usize(Top(2)))))

Hashes == Fetch("Sha3") /\ \E hash \in VmHashes : ReadsRange("Sha3", LAMBDA data : Pushes("Sha3", 2, hash))

(* A jump lands on the JUMPDEST itself, which is fetched and paid next.     *)
Lands(op, n, dest) ==
    IF dest >= Len(vm.code) \/ vm.code[dest + 1] # "JumpDest" THEN VmFails(Paid(op), "InvalidJump")
    ELSE vm' = [Paid(op) EXCEPT !.stack = Below(n), !.pc = dest]

Jumps ==
    \/ Fetch("Jump") /\ Pops("Jump", 1, Lands("Jump", 1, word_to_usize(Top(1))))
    \/ /\ Fetch("JumpI")
       /\ Pops("JumpI", 2, IF Top(2) = WordZero THEN vm' = [Paid("JumpI") EXCEPT !.stack = Below(2)]
                           ELSE Lands("JumpI", 2, word_to_usize(Top(1))))

Halts ==
    \/ Fetch("Stop") /\ vm' = [Paid("Stop") EXCEPT !.stopped = TRUE]
    \/ /\ Fetch("Return")
       /\ ReadsRange("Return", LAMBDA data :
              vm' = [Paid("Return") EXCEPT !.stack = Below(2), !.return_data = data, !.stopped = TRUE])
    \/ Fetch("Revert") /\ ReadsRange("Revert", LAMBDA data : VmFails(Paid("Revert"), "Revert"))
    \/ Fetch("Invalid") /\ VmFails(Paid("Invalid"), "InvalidOpcode")

(* Not implemented: PUSH, storage, call data and the rest; a PUSH's operand *)
(* is the next opcode.                                                      *)
Skips == \E op \in {"JumpDest", "CallDataSize", "SDiv", "Push1", "Exp", "SLoad"} : Fetch(op) /\ vm' = Paid(op)

VmNext == VmRefuses \/ Computes \/ Remembers \/ Hashes \/ Jumps \/ Halts \/ Skips
============================================================================
