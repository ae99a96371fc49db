CONSTANTS
  MaxMaster = 2
  Envs <- SomeEnvs
  Setups <- AllSetups
  Texts <- SomeTexts
  Keys <- SomeKeys
  Styles <- AllStyles
  Sums <- SomeSums
SPECIFICATION Spec
INVARIANTS TypeOK KeyringOnceRight AsksOnce StatusTells TokenAtHome OutputReads
CHECK_DEADLOCK FALSE
