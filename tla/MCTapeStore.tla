----------------------------- MODULE MCTapeStore ------------------------------
(***************************************************************************)
(* Files that other programs wrote, byte by byte from the TZX format       *)
(* description that types/tape/tzx.h follows: every kind of block that     *)
(* gzx knows, with values at the edges of the fields.                      *)
(***************************************************************************)
EXTENDS TapeStore

Tzx(blocks, bytes) ==
  [fmt |-> "tzx", how |-> "foreign", tape |-> [version |-> <<1, 20>>, blocks |-> blocks],
   bytes |-> <<90, 88, 84, 97, 112, 101, 33, 26, 1, 20>> \o bytes]

DataFile ==
  Tzx(<<[btype |-> "data", pause_after |-> 1000, data |-> <<255, 7>>],
        [btype |-> "turbo_data", pilot_len |-> 2168, sync1_len |-> 667, sync2_len |-> 735, zero_len |-> 855,
         one_len |-> 1710, pilot_pulses |-> 65535, lb_bits |-> 5, pause_after |-> 256, data |-> <<9>>],
        [btype |-> "pure_data", zero_len |-> 1, one_len |-> 512, lb_bits |-> 8, pause_after |-> 0, data |-> <<>>]>>,
      <<16, 232, 3, 2, 0, 255, 7,
        17, 120, 8, 155, 2, 223, 2, 87, 3, 174, 6, 255, 255, 5, 0, 1, 1, 0, 0, 9,
        20, 1, 0, 0, 2, 8, 0, 0, 0, 0, 0>>)

PulseFile ==
  Tzx(<<[btype |-> "tone", pulse_len |-> 2168, num_pulses |-> 3223],
        [btype |-> "pulses", pulse_len |-> <<667, 0>>],
        [btype |-> "direct_rec", smp_dur |-> 79, pause_after |-> 1, lb_bits |-> 3, data |-> <<160, 170>>],
        [btype |-> "pause", pause_len |-> 256],
        [btype |-> "stop"]>>,
      <<18, 120, 8, 151, 12,
        19, 2, 155, 2, 0, 0,
        21, 79, 0, 1, 0, 3, 2, 0, 0, 160, 170,
        32, 0, 1,
        32, 0, 0>>)

ControlFile ==
  Tzx(<<[btype |-> "group_start", name |-> <<65, 66>>],
        [btype |-> "loop_start", num_rep |-> 258],
        [btype |-> "loop_end"],
        [btype |-> "stop_48k"],
        [btype |-> "group_end"],
        [btype |-> "text_desc", text |-> <<67>>]>>,
      <<33, 3, 65, 66, 0,
        36, 2, 1,
        37,
        42, 0, 0, 0, 0,
        34,
        48, 2, 67, 0>>)

InfoFile ==
  Tzx(<<[btype |-> "archive_info", texts |-> <<[text_type |-> 0, text |-> <<68, 69>>], [text_type |-> 255, text |-> <<>>]>>],
        [btype |-> "hw_type", hwinfos |-> <<[hwtype |-> 0, hwid |-> 1, hwinfo |-> 3], [hwtype |-> 5, hwid |-> 0, hwinfo |-> 1]>>],
        [btype |-> "unknown", block_type |-> 43, udata |-> <<1>>],
        [btype |-> "text_desc", text |-> <<67>>]>>,
      <<50, 7, 0, 2, 0, 2, 68, 69, 255, 0,
        51, 2, 0, 1, 3, 5, 0, 1,
        43, 1, 0, 0, 0, 1,
        48, 1, 67>>)

TapFile ==
  [fmt |-> "tap", how |-> "foreign", bytes |-> <<2, 0, 0, 1, 1, 0, 255>>,
   tape |-> [version |-> <<1, 1>>, blocks |-> <<[btype |-> "data", pause_after |-> 1000, data |-> <<0, 1>>],
                                               [btype |-> "data", pause_after |-> 1000, data |-> <<255>>]>>]]

(* Two WAVE files: 44100 Hz with eight bits, more samples than a recording  *)
(* holds, and 22050 Hz with sixteen bits and a longer chunk of parameters. *)
Wav(bytes) == [fmt |-> "wav", how |-> "foreign", tape |-> NoTape, bytes |-> bytes]
Riff(n) == <<82, 73, 70, 70, n, 0, 0, 0, 87, 65, 86, 69>>
WavFile8 ==
  Wav(Riff(95) \o <<102, 109, 116, 32, 16, 0, 0, 0, 1, 0, 1, 0, 68, 172, 0, 0, 68, 172, 0, 0, 1, 0, 8, 0,
                    100, 97, 116, 97, 59, 0, 0, 0>> \o [i \in 1..59 |-> IF (i \div 5) % 2 = 0 THEN 255 ELSE 0])
WavFile16 ==
  Wav(Riff(74) \o <<102, 109, 116, 32, 18, 0, 0, 0, 1, 0, 1, 0, 34, 86, 0, 0, 68, 172, 0, 0, 2, 0, 16, 0, 0, 0,
                    100, 97, 116, 97, 36, 0, 0, 0>> \o [i \in 1..36 |-> IF i % 4 = 1 THEN 1 ELSE IF i % 12 = 0 THEN 128 ELSE 0])
MCFiles == {DataFile, PulseFile, ControlFile, InfoFile, TapFile, WavFile8, WavFile16}
MCRecordings == {[btype |-> "data", pause_after |-> 1000, data |-> <<255>>]}
MCMems == {0, 1, 3, 8, 10}
MCResampled == {<<>>, [i \in 1..16 |-> 255 * (i % 2)]}
===============================================================================
