-------------------------------- MODULE MCDlpar --------------------------------
(***************************************************************************)
(* Dlpar for TLC: a partition of three processors that may grow to six or  *)
(* seven (above and below Many), memory with room for three and more       *)
(* steps, and two jobs, so that the second meets what the first left.      *)
(*                                                                         *)
(* Dlpar states the quantities in closed form; here the loops that compute *)
(* them are followed round by round, and TLC finds the same lists.         *)
(***************************************************************************)
EXTENDS Dlpar

AllSelections ==
    {<< "test_cpu_add", "test_cpu_rm", "test_mix_cpu" >>,
     << "test_mem_add", "test_mem_rem", "test_mem_mix" >>,
     << "test_cpu_move", "test_mem_mov" >>,
     << "test_check_smt_state", "test_offline_cpu_persistence",
        "test_offline_proc_persistence" >>}

--------------------------------------------------------------------------------
RECURSIVE CpuLoop(_, _, _, _), MemLoop(_, _, _), MixLoop(_)

\* cpu_payload_data: from current_sum and index on.
CpuLoop(max_value, current_sum, index, step) ==
    IF current_sum + index > max_value THEN << >>
    ELSE << index >> \o CpuLoop(max_value, current_sum + index, index + step, step)

\* mem_payload_data: from current_sum and index_value on.
MemLoop(max_value, current_sum, index_value) ==
    LET remaining == max_value - current_sum - index_value
    IN IF remaining < 0 THEN << >>
       ELSE << index_value >> \o
            IF remaining = 0 THEN << >>
            ELSE MemLoop(max_value, current_sum + index_value,
                         IF remaining < index_value THEN remaining
                         ELSE Min({2 * index_value, remaining}))

\* mix_payload_data: every choice of randint, from remaining_sum on.
MixLoop(remaining_sum) ==
    IF remaining_sum = 0 THEN {<< >>}
    ELSE UNION {{<< v >> \o l : l \in MixLoop(remaining_sum - v)} : v \in 1..remaining_sum}

\* The closed forms are what the loops compute.
ASSUME ClosedForms ==
    /\ \A max \in 0..60, curr \in 0..9, step \in 1..3 :
           curr <= max => SelectSeq(CpuLoop(max, curr, 0, step), LAMBDA v : v # 0)
                              = Series(Fitting(max - curr, step), step)
    /\ \A max \in 0..30, curr \in 0..9 :
           curr <= max => MemLoop(max, curr, 1) = mem_payload_data(max - curr)
    /\ \A n \in 0..6 : mix_payload_data(<< n >>) = MixLoop(n)
================================================================================
