----------------------------- MODULE CoderKeys -----------------------------
(***************************************************************************)
(* coder/keys.go: the two byte maps. Element b + 1 is what byte b maps to. *)
(***************************************************************************)
EXTENDS Integers, Sequences

g_SendByteMap ==
  << 158,  39, 202, 241,  10, 232, 136, 175,  55,  85, 237,  70, 208,  73,  35, 223,
     193,   7, 134, 200, 176, 171, 167,  65,  80,  82,  12,  86, 206,  64,  96, 105,
      20,  33, 170,  91,  36, 104,  48,  88, 142, 157,  44,  17, 152, 182,  50, 188,
     224, 155, 197, 100,  18,   2, 254,  60, 203, 111, 162, 115, 119, 164,  21,  34,
      52,  37,   8, 240,   4, 145, 117,  67, 252,   3,  63, 249,  27, 169, 238,  68,
      58, 161, 148,  93, 112,  24, 194,  81, 156, 131, 173, 246, 255,  74,  99, 154,
     218,   5, 210, 147, 198,  56, 217,  89, 120, 192,  53, 190, 110,  16, 116,  32,
       6, 211, 166,  26, 226, 187, 251, 121, 204,  92, 229, 250, 160, 140, 122, 183,
      83, 114, 109,  97,  57, 135, 128, 132, 186,  95, 125,  79, 222, 165, 219, 180,
     103,  51, 143,  46, 113, 189, 220,   1, 221, 201, 163, 234,  23, 247, 108,  49,
     205, 196,  69, 178, 215,  25,  29, 231,  11,  47, 168,  78,  31,  98, 209,  30,
     191, 130, 181, 133, 150, 185, 106,  62,  41, 159,  87, 172, 244,  42, 207, 214,
      13, 141, 195, 118, 245, 239, 243,   0, 227, 146, 199,  38, 129,  40, 174, 228,
      43, 102, 137, 139, 212, 123,  75,  22,  76, 216, 225, 242, 101, 153, 230, 124,
     149,  77,  19, 151, 184,  72, 126,  94,  66,   9, 213, 248, 107, 179, 177,  61,
      54,  45,  15,  59, 236,  71,  28, 235,  14, 127,  90, 144, 253, 138, 233,  84 >>

g_RecvByteMap ==
  << 199, 151,  53,  73,  68,  97, 112,  17,  66, 233,   4, 168,  26, 192, 248, 242,
     109,  43,  52, 226,  32,  62, 215, 156,  85, 165, 115,  76, 246, 166, 175, 172,
     111,  33,  63,  14,  36,  65, 203,   1, 205, 184, 189, 208,  42, 241, 147, 169,
      38, 159,  46, 145,  64, 106, 240,   8, 101, 132,  80, 243,  55, 239, 183,  74,
      29,  23, 232,  71,  79, 162,  11, 245, 229,  13,  93, 214, 216, 225, 171, 139,
      24,  87,  25, 128, 255,   9,  27, 186,  39, 103, 250,  35, 121,  83, 231, 137,
      30, 131, 173,  94,  51, 220, 209, 144,  37,  31, 182, 236, 158, 130, 108,  57,
      84, 148, 129,  59, 110,  70, 195,  60, 104, 119, 126, 213, 223, 138, 230, 249,
     134, 204, 177,  89, 135, 179,  18, 133,   6, 210, 253, 211, 125, 193,  40, 146,
     251,  69, 201,  99,  82, 224, 180, 227,  44, 221,  95,  49,  88,  41,   0, 185,
     124,  81,  58, 154,  61, 141, 114,  22, 170,  77,  34,  21, 187,  90, 206,   7,
      20, 238, 163, 237, 143, 178,  45, 127, 228, 181, 136, 117,  47, 149, 107, 176,
     105,  16,  86, 194, 161,  50, 100, 202,  19, 153,   2,  56, 120, 160,  28, 190,
      12, 174,  98, 113, 212, 234, 191, 164, 217, 102,  96, 142, 150, 152, 140,  15,
      48, 218, 116, 200, 207, 122, 222, 167,   5, 254, 155, 247, 244,  10,  78, 197,
      67,   3, 219, 198, 188, 196,  91, 157, 235,  75, 123, 118,  72, 252,  54,  92 >>

\* Each map undoes the other: what both coders count on (keys.go:3-7 only
\* checks the lengths).
ASSUME MapsAssumption ==
  /\ g_SendByteMap \in [1..256 -> 0..255] /\ g_RecvByteMap \in [1..256 -> 0..255]
  /\ \A b \in 0..255 : g_RecvByteMap[g_SendByteMap[b + 1] + 1] = b
=============================================================================
