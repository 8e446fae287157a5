-------------------------- MODULE MCEd25519Extract --------------------------
EXTENDS Ed25519Extract

(* Keys of one byte, messages of two, signatures of two: the honest      *)
(* layout puts the signature at 16, the key at 18, the message at 19..20. *)
MC_Signer == <<5>>
MC_Attacker == <<6>>
MC_HonestMsg == <<1, 2>>
MC_ForgedMsg == <<3, 4>>
MC_SigCode ==
    [p \in {<<MC_Attacker, MC_HonestMsg>>, <<MC_Attacker, MC_ForgedMsg>>,
            <<MC_Signer, MC_HonestMsg>>} |->
        CASE p = <<MC_Attacker, MC_HonestMsg>> -> <<1, 1>>
          [] p = <<MC_Attacker, MC_ForgedMsg>> -> <<1, 2>>
          [] OTHER -> <<2, 1>>]
MC_Unforgeable == <<7, 7>>

(* Offsets on and one past every field boundary; sizes exact and one over. *)
MC_Offsets == {16, 18, 19, 20}
MC_Sizes == {2, 3}
=============================================================================
